---- MODULE Spec2Model ----
(***************************************************************************)
(* Probe/response correlation and timing engine of midi_tester:            *)
(* message identity model (message_types.py), fuzz analyzer / generator /  *)
(* FuzzTest (fuzz_test.py) and the endurance latency monitor               *)
(* (endurance_monitor.py).                                                 *)
(*                                                                         *)
(* Time is an integer number of milliseconds.  perf_counter() is the       *)
(* variable now; a tick reads it after it has advanced.  Floating point    *)
(* quantities that are not integers in this unit (elapsed minutes, the     *)
(* running mean and M2) are exact rationals <<num, den>>.                  *)
(*                                                                         *)
(* The fuzz test and the endurance monitor are two objects that share no   *)
(* field.  A behaviour drives one of them (variable driver); a behaviour   *)
(* of the pair projects onto a behaviour of each.                          *)
(***************************************************************************)
EXTENDS Integers, Sequences, FiniteSets, TLC

(***************************************************************************)
(* Bounds of the model                                                     *)
(***************************************************************************)
\* last clock value, in tick periods
MaxTime == 4
\* messages registered by the fuzz generator in one behaviour
MaxSends == 2
\* inbound events handed to one tick
MaxEvents == 1
\* how many entries of a list the random generator's choice() reaches
MaxChoice == 1
\* capacity of the bounded series (max_points of both components)
MaxPoints == 1
\* capacity of the fuzz miss log (max_missing)
MaxMissing == 1
\* per-tick send cap of the generator (max_send_per_tick)
MaxSendPerTick == 2
\* length of the type lists handed to set_probe_types
MaxTypes == 2

(***************************************************************************)
(* Generic helpers                                                         *)
(***************************************************************************)
None == -1

Min(a, b) == IF a <= b THEN a ELSE b

Max(a, b) == IF a >= b THEN a ELSE b

Abs(a) == IF a < 0 THEN 0 - a ELSE a

RECURSIVE GCD(_, _)
GCD(a, b) == IF b = 0 THEN a ELSE GCD(b, a % b)

\* exact rationals, kept in lowest terms with a positive denominator
Rat(n, d) ==
    LET g == GCD(Abs(n), Abs(d))
        s == IF d < 0 THEN 0 - 1 ELSE 1
    IN  IF n = 0 THEN <<0, 1>> ELSE <<(s * n) \div g, (s * d) \div g>>

RInt(n) == <<n, 1>>

RAdd(p, q) == Rat(p[1] * q[2] + q[1] * p[2], p[2] * q[2])

RSub(p, q) == Rat(p[1] * q[2] - q[1] * p[2], p[2] * q[2])

RMul(p, q) == Rat(p[1] * q[1], p[2] * q[2])

RDiv(p, k) == Rat(p[1], p[2] * k)

\* a deque without maxlen: nothing is ever evicted
DequeAppend_unbounded(dq, x, cap) == Append(dq, x)

\* a Python deque(maxlen = cap): append drops the oldest entry when full
DequeAppend(dq, x, cap) ==
    IF cap = 0 THEN dq
    ELSE IF Len(dq) >= cap THEN Append(Tail(dq), x)
    ELSE Append(dq, x)

EmptyMap == [x \in {} |-> 0]

MapPut(m, k, v) == [x \in (DOMAIN m) \cup {k} |-> IF x = k THEN v ELSE m[x]]

\* a pop that leaves the entry in the dictionary
MapDel_keep(m, k) == m

MapDel(m, k) == [x \in (DOMAIN m) \ {k} |-> m[x]]

SeqToSet(s) == {s[i] : i \in 1..Len(s)}

(***************************************************************************)
(* message_types.py                                                        *)
(***************************************************************************)
TYPE_NOTE == "note"
TYPE_CC == "cc"
TYPE_CC14 == "cc14"
TYPE_NRPN == "nrpn"
TYPE_PC == "pc"
TYPE_PB == "pb"

ALL_TYPES == <<TYPE_NOTE, TYPE_CC, TYPE_CC14, TYPE_NRPN, TYPE_PC, TYPE_PB>>

TYPE_RANGES ==
    [t \in SeqToSet(ALL_TYPES) |->
        CASE t = TYPE_NOTE -> [number |-> <<0, 127>>, value |-> <<1, 127>>]
          [] t = TYPE_CC   -> [number |-> <<0, 127>>, value |-> <<0, 127>>]
          [] t = TYPE_CC14 -> [number |-> <<0, 31>>, value |-> <<0, 16383>>]
          [] t = TYPE_NRPN -> [number |-> <<0, 16383>>, value |-> <<0, 16383>>]
          [] t = TYPE_PC   -> [number |-> <<0, 127>>, value |-> <<0, 0>>]
          [] t = TYPE_PB   -> [number |-> <<0, 0>>, value |-> <<0, 16383>>]]

PROBE_DEFAULTS ==
    [t \in SeqToSet(ALL_TYPES) |->
        CASE t = TYPE_NOTE -> [number |-> 60, value |-> 100]
          [] t = TYPE_CC   -> [number |-> 74, value |-> 64]
          [] t = TYPE_CC14 -> [number |-> 1, value |-> 8192]
          [] t = TYPE_NRPN -> [number |-> 1300, value |-> 8192]
          [] t = TYPE_PC   -> [number |-> 10, value |-> 0]
          [] t = TYPE_PB   -> [number |-> 0, value |-> 8192]]

MessageSpec(mtype, channel, number, value) ==
    [mtype |-> mtype, channel |-> channel, number |-> number, value |-> value]

identity(spec) == <<spec.mtype, spec.channel, spec.number, spec.value>>

\* MessageSpec.label(): "{mtype} ch{channel + 1} n{number} v{value}"
label(spec) == <<spec.mtype, spec.channel + 1, spec.number, spec.value>>

\* a clamp that forgets the upper bound
clamp_no_upper(val, lo, hi) == Max(lo, val)

clamp(val, lo, hi) == Max(lo, Min(hi, val))

build_spec(mtype, channel, number, value) ==
    LET ranges == TYPE_RANGES[mtype]
    IN  MessageSpec(mtype, channel,
                    clamp(number, ranges.number[1], ranges.number[2]),
                    clamp(value, ranges.value[1], ranges.value[2]))

\* rng.randint(lo, hi): the draws the model follows are the two ends
RandInt(lo, hi) == {lo, hi}

\* rng.choice(list): the draws the model follows are the first MaxChoice
Choice(list) == {list[i] : i \in 1..Min(Len(list), MaxChoice)}

\* the set of specs random_spec can return.  When number and value are both
\* drawn, the model follows the draws that take the same end of both ranges.
random_spec(mtype, channel, vary_number, vary_value, base_number, base_value) ==
    LET ranges == TYPE_RANGES[mtype]
        bn == IF base_number = None THEN PROBE_DEFAULTS[mtype].number ELSE base_number
        bv == IF base_value = None THEN PROBE_DEFAULTS[mtype].value ELSE base_value
        draw_number == ranges.number[1] # ranges.number[2] /\ vary_number
        draw_value == ranges.value[1] # ranges.value[2] /\ vary_value
        numbers == IF ranges.number[1] = ranges.number[2] THEN {ranges.number[1]}
                   ELSE IF vary_number THEN RandInt(ranges.number[1], ranges.number[2])
                   ELSE {bn}
        values == IF ranges.value[1] = ranges.value[2] THEN {ranges.value[1]}
                  ELSE IF vary_value THEN RandInt(ranges.value[1], ranges.value[2])
                  ELSE {bv}
        draws == IF draw_number /\ draw_value
                 THEN {<<ranges.number[i], ranges.value[i]>> : i \in 1..2}
                 ELSE numbers \X values
    IN  {build_spec(mtype, channel, d[1], d[2]) : d \in draws}

(***************************************************************************)
(* Inbound events: dictionaries of the decoder (midi_backend._parse_message)*)
(* The field cause is not part of the event: it names the send (uid) or    *)
(* the chord (probe number) whose echo the event is, 0 for none.           *)
(***************************************************************************)
NoTimestamp == None

NoSpec == MessageSpec("none", None, None, None)

\* an event_to_spec that takes a polyphonic aftertouch for a note
event_to_spec_poly(e) ==
    CASE e.type = TYPE_NOTE ->
            IF e.velocity <= 0 THEN NoSpec
            ELSE MessageSpec(TYPE_NOTE, e.channel, e.note, e.velocity)
      [] e.type = TYPE_CC   -> MessageSpec(TYPE_CC, e.channel, e.cc, e.value)
      [] e.type = TYPE_CC14 -> MessageSpec(TYPE_CC14, e.channel, e.cc, e.value)
      [] e.type = TYPE_NRPN -> MessageSpec(TYPE_NRPN, e.channel, e.nrpn, e.value)
      [] e.type = TYPE_PC   -> MessageSpec(TYPE_PC, e.channel, e.value, 0)
      [] e.type = TYPE_PB   -> MessageSpec(TYPE_PB, e.channel, 0, e.value)
      [] e.type = "poly_at" -> MessageSpec(TYPE_NOTE, e.channel, e.note, e.value)
      [] OTHER -> NoSpec

event_to_spec(e) ==
    CASE e.type = TYPE_NOTE ->
            IF e.velocity <= 0 THEN NoSpec
            ELSE MessageSpec(TYPE_NOTE, e.channel, e.note, e.velocity)
      [] e.type = TYPE_CC   -> MessageSpec(TYPE_CC, e.channel, e.cc, e.value)
      [] e.type = TYPE_CC14 -> MessageSpec(TYPE_CC14, e.channel, e.cc, e.value)
      [] e.type = TYPE_NRPN -> MessageSpec(TYPE_NRPN, e.channel, e.nrpn, e.value)
      [] e.type = TYPE_PC   -> MessageSpec(TYPE_PC, e.channel, e.value, 0)
      [] e.type = TYPE_PB   -> MessageSpec(TYPE_PB, e.channel, 0, e.value)
      [] OTHER -> NoSpec

\* the event the decoder builds when the device echoes the sent message
EchoEvent(spec, ts, cause) ==
    CASE spec.mtype = TYPE_NOTE ->
            [type |-> TYPE_NOTE, channel |-> spec.channel, note |-> spec.number,
             velocity |-> spec.value, timestamp |-> ts, cause |-> cause]
      [] spec.mtype \in {TYPE_CC, TYPE_CC14} ->
            [type |-> spec.mtype, channel |-> spec.channel, cc |-> spec.number,
             value |-> spec.value, timestamp |-> ts, cause |-> cause]
      [] spec.mtype = TYPE_NRPN ->
            [type |-> TYPE_NRPN, channel |-> spec.channel, nrpn |-> spec.number,
             value |-> spec.value, timestamp |-> ts, cause |-> cause]
      [] spec.mtype = TYPE_PC ->
            [type |-> TYPE_PC, channel |-> spec.channel, value |-> spec.number,
             timestamp |-> ts, cause |-> cause]
      [] spec.mtype = TYPE_PB ->
            [type |-> TYPE_PB, channel |-> spec.channel, value |-> spec.value,
             timestamp |-> ts, cause |-> cause]

\* e.get('timestamp', now)
EventTime(e, now_) == IF e.timestamp = NoTimestamp THEN now_ ELSE e.timestamp

(***************************************************************************)
(* Variables                                                               *)
(***************************************************************************)
VARIABLES
    now,        \* time.perf_counter(), in ms
    driver,     \* which object this behaviour drives: "fuzz" or "endurance"
    analyzer,   \* FuzzAnalyzer
    generator,  \* FuzzGenerator
    timing,     \* TimingModel
    endurance,  \* EnduranceLatencyMonitor
    midi,       \* what the backend has put on the wire (history)
    processor,  \* MidiProcessor
    audit       \* history of sends and their resolutions (not program state)

vars == <<now, driver, analyzer, generator, timing, endurance, midi, processor, audit>>

(***************************************************************************)
(* fuzz_test.py: RunningStats                                              *)
(***************************************************************************)
RunningStats_init ==
    [count |-> 0, mean |-> RInt(0), m2 |-> RInt(0), min_val |-> None, max_val |-> None]

\* a reset that keeps the samples
RunningStats_reset_keep(st) == st

RunningStats_reset(st) == RunningStats_init

RunningStats_update(st, value) ==
    LET count == st.count + 1
        delta == RSub(RInt(value), st.mean)
        mean == RAdd(st.mean, RDiv(delta, count))
        delta2 == RSub(RInt(value), mean)
    IN  [count |-> count,
         mean |-> mean,
         m2 |-> RAdd(st.m2, RMul(delta, delta2)),
         min_val |-> IF st.min_val = None \/ value < st.min_val THEN value ELSE st.min_val,
         max_val |-> IF st.max_val = None \/ value > st.max_val THEN value ELSE st.max_val]

RunningStats_variance(st) == IF st.count < 2 THEN RInt(0) ELSE RDiv(st.m2, st.count - 1)

(***************************************************************************)
(* fuzz_test.py: FuzzAnalyzer                                              *)
(* The operators take and return the record s of the fuzz objects:         *)
(* s.an analyzer, s.gen generator, s.tm timing model, s.out wire history,  *)
(* s.au audit history.                                                     *)
(***************************************************************************)
\* timeout_s = 2.0 (FuzzTest.__init__), in ms
TimeoutMs == 2000

\* the period of the driver's ticks: half the fuzz timeout
Quantum == TimeoutMs \div 2

FuzzAnalyzer_init ==
    [timeout_s |-> TimeoutMs,
     max_points |-> MaxPoints,
     max_missing |-> MaxMissing,
     pending |-> EmptyMap,
     deadlines |-> <<>>,
     results_x |-> <<>>,
     results_y |-> <<>>,
     missing_log |-> <<>>,
     stats |-> RunningStats_init,
     start_time |-> None,
     last_latency_ms |-> None,
     missed_count |-> 0,
     received_count |-> 0,
     sent_count |-> 0,
     plot_dirty |-> FALSE,
     new_result |-> FALSE]

\* Python's order on identity tuples: the type string first, then the ints
TypeRank(t) ==
    CASE t = TYPE_CC -> 1 [] t = TYPE_CC14 -> 2 [] t = TYPE_NOTE -> 3
      [] t = TYPE_NRPN -> 4 [] t = TYPE_PB -> 5 [] t = TYPE_PC -> 6 [] OTHER -> 0

IdLess(a, b) ==
    \/ TypeRank(a[1]) < TypeRank(b[1])
    \/ a[1] = b[1] /\ a[2] < b[2]
    \/ a[1] = b[1] /\ a[2] = b[2] /\ a[3] < b[3]
    \/ a[1] = b[1] /\ a[2] = b[2] /\ a[3] = b[3] /\ a[4] < b[4]

EntryLess(x, y) == x[1] < y[1] \/ (x[1] = y[1] /\ IdLess(x[2], y[2]))

\* a push that puts the new entry first whatever its deadline
heappush_unordered(heap, entry) == <<entry>> \o heap

\* heapq.heappush / heappop: the heap is kept as the sequence of its entries
\* in the order heappop returns them
RECURSIVE heappush(_, _)
heappush(heap, entry) ==
    IF heap = <<>> THEN <<entry>>
    ELSE IF EntryLess(entry, Head(heap)) THEN <<entry>> \o heap
    ELSE <<Head(heap)>> \o heappush(Tail(heap), entry)

\* elapsed_min = (send_time - start_time) / 60.0 if start_time else 0.0
ElapsedMin(send_time, start_time) ==
    IF start_time = None \/ start_time = 0 THEN RInt(0)
    ELSE Rat(send_time - start_time, 60 * 1000)

\* a latency without the floor at 0
LatencyMs_signed(event_time, send_time) == event_time - send_time

\* (event_time - send_time) * 1000.0 with both times in seconds
LatencyMs(event_time, send_time) == Max(0, event_time - send_time)

\* audit: the sends that were pending leave the pending map unresolved
Dropped(ledger, pending) ==
    [u \in DOMAIN ledger |->
        IF \E id \in DOMAIN pending : pending[id].uid = u
        THEN [ledger[u] EXCEPT !.res = "dropped"]
        ELSE ledger[u]]

FuzzAnalyzer_start(s, t) ==
    [s EXCEPT !.an = [@ EXCEPT
                        !.start_time = t,
                        !.pending = EmptyMap,
                        !.deadlines = <<>>,
                        !.results_x = <<>>,
                        !.results_y = <<>>,
                        !.missing_log = <<>>,
                        !.stats = RunningStats_reset(@),
                        !.last_latency_ms = None,
                        !.missed_count = 0,
                        !.received_count = 0,
                        !.sent_count = 0,
                        !.plot_dirty = TRUE,
                        !.new_result = FALSE],
              !.au.ledger = [u \in DOMAIN @ |->
                                [Dropped(@, s.an.pending)[u] EXCEPT !.stale = TRUE]]]

FuzzAnalyzer_stop(s) ==
    [s EXCEPT !.an = [@ EXCEPT !.pending = EmptyMap, !.deadlines = <<>>],
              !.au.ledger = Dropped(@, s.an.pending)]

\* audit: how a resolution changes the record of a send
Resolve(res, how) == IF res = "pending" THEN how ELSE "twice"

\* a register_sent that queues no deadline for an identity that has one queued
register_sent_once(s, spec, send_time) ==
    LET id == identity(spec)
        uid == Len(s.au.ledger) + 1
        queued == \E i \in 1..Len(s.an.deadlines) : s.an.deadlines[i][2] = id
    IN  [s EXCEPT
           !.an = [@ EXCEPT
                     !.start_time = IF @ = None THEN send_time ELSE @,
                     !.pending = MapPut(@, id, [send_time |-> send_time, spec |-> spec, uid |-> uid]),
                     !.deadlines = IF queued THEN @
                                   ELSE heappush(@, <<send_time + s.an.timeout_s, id>>),
                     !.sent_count = @ + 1],
           !.au.ledger =
               Append(IF id \in DOMAIN s.an.pending
                      THEN [@ EXCEPT ![s.an.pending[id].uid].res = "lost"]
                      ELSE @,
                      [id |-> id, res |-> "pending", stale |-> FALSE])]

register_sent(s, spec, send_time) ==
    LET id == identity(spec)
        uid == Len(s.au.ledger) + 1
    IN  [s EXCEPT
           !.an = [@ EXCEPT
                     !.start_time = IF @ = None THEN send_time ELSE @,
                     !.pending = MapPut(@, id, [send_time |-> send_time, spec |-> spec, uid |-> uid]),
                     !.deadlines = heappush(@, <<send_time + s.an.timeout_s, id>>),
                     !.sent_count = @ + 1],
           !.au.ledger =
               Append(IF id \in DOMAIN s.an.pending
                      THEN [@ EXCEPT ![s.an.pending[id].uid].res = "lost"]
                      ELSE @,
                      [id |-> id, res |-> "pending", stale |-> FALSE])]

\* a loop body that counts the response and leaves the send pending
ProcessEvent_keep(s, e, now_) ==
    LET spec == event_to_spec(e)
        id == identity(spec)
    IN  IF spec = NoSpec THEN s
        ELSE IF id \notin DOMAIN s.an.pending THEN s
        ELSE [s EXCEPT !.an.received_count = @ + 1]

\* the body of the for loop of process_events for one event
ProcessEvent(s, e, now_) ==
    LET spec == event_to_spec(e)
        id == identity(spec)
    IN  IF spec = NoSpec THEN s
        ELSE IF id \notin DOMAIN s.an.pending THEN s
        ELSE LET entry == s.an.pending[id]
                 event_time == EventTime(e, now_)
                 latency_ms == LatencyMs(event_time, entry.send_time)
                 elapsed_min == ElapsedMin(entry.send_time, s.an.start_time)
             IN  [s EXCEPT
                    !.an = [@ EXCEPT
                              !.pending = MapDel(@, id),
                              !.results_x = DequeAppend(@, elapsed_min, s.an.max_points),
                              !.results_y = DequeAppend(@, latency_ms, s.an.max_points),
                              !.stats = RunningStats_update(@, latency_ms),
                              !.last_latency_ms = latency_ms,
                              !.received_count = @ + 1,
                              !.plot_dirty = TRUE,
                              !.new_result = TRUE],
                    !.au = [@ EXCEPT
                              !.ledger[entry.uid].res = Resolve(@, "matched"),
                              !.miscredit = @ \/ e.cause # entry.uid]]

RECURSIVE process_events(_, _, _)
process_events(s, events, now_) ==
    IF events = <<>> THEN s
    ELSE process_events(ProcessEvent(s, Head(events), now_), Tail(events), now_)

\* a check_timeouts that pops what is due and lets the pending entries wait
RECURSIVE check_timeouts_wait(_, _)
check_timeouts_wait(s, now_) ==
    IF s.an.deadlines = <<>> \/ ~(Head(s.an.deadlines)[1] <= now_) THEN s
    ELSE check_timeouts_wait([s EXCEPT !.an.deadlines = Tail(@)], now_)

RECURSIVE check_timeouts(_, _)
check_timeouts(s, now_) ==
    IF s.an.deadlines = <<>> \/ ~(Head(s.an.deadlines)[1] <= now_) THEN s
    ELSE LET id == Head(s.an.deadlines)[2]
             popped == [s EXCEPT !.an.deadlines = Tail(@)]
         IN  IF id \notin DOMAIN s.an.pending THEN check_timeouts(popped, now_)
             ELSE LET entry == s.an.pending[id]
                      text == <<label(entry.spec), entry.send_time>>
                  IN  check_timeouts(
                        [popped EXCEPT
                           !.an = [@ EXCEPT
                                     !.pending = MapDel(@, id),
                                     !.missed_count = @ + 1,
                                     !.missing_log = DequeAppend(@, text, s.an.max_missing)],
                           !.au = [@ EXCEPT
                                     !.ledger[entry.uid].res = Resolve(@, "missed"),
                                     !.premature =
                                         @ \/ now_ < entry.send_time + s.an.timeout_s]],
                        now_)

\* a get_stats that reports the fields of the statistics object also when it
\* holds no sample
get_stats_numbers(an) ==
    [mean |-> an.stats.mean,
     stddev |-> RunningStats_variance(an.stats),
     min |-> an.stats.min_val,
     max |-> an.stats.max_val,
     last |-> an.last_latency_ms,
     sent |-> an.sent_count,
     received |-> an.received_count,
     missing |-> an.missed_count,
     pending |-> Cardinality(DOMAIN an.pending)]

get_stats(an) ==
    LET none == an.stats.count = 0
    IN  [mean |-> IF none THEN <<None>> ELSE an.stats.mean,
         stddev |-> IF none THEN <<None>> ELSE RunningStats_variance(an.stats),
         min |-> IF none THEN None ELSE an.stats.min_val,
         max |-> IF none THEN None ELSE an.stats.max_val,
         last |-> IF none THEN None ELSE an.last_latency_ms,
         sent |-> an.sent_count,
         received |-> an.received_count,
         missing |-> an.missed_count,
         pending |-> Cardinality(DOMAIN an.pending)]

(***************************************************************************)
(* midi_backend.py: the send API, recorded as wire history                 *)
(* midi.sent counts the messages the running handler has sent (it is 0    *)
(* when a handler is entered); midi.sounding holds the <<channel, note>>   *)
(* pairs whose last message on the wire is a note-on (velocity > 0).       *)
(***************************************************************************)
Midi_init == [sent |-> 0, sounding |-> {}]

send_note(out, channel, note, velocity) ==
    [sent |-> out.sent + 1,
     sounding |-> IF velocity > 0 THEN out.sounding \cup {<<channel, note>>}
                  ELSE out.sounding \ {<<channel, note>>}]

\* send_cc, send_cc14, send_nrpn, send_program_change, send_pitch_bend
send_other(out) == [out EXCEPT !.sent = @ + 1]

(***************************************************************************)
(* timing_model.py: TimingModel.next_delay_s, for every configuration.     *)
(* A delay is 0 inside a burst (min_gap of the presets); otherwise it is   *)
(* one tick period or, in full mode with a low base rate, longer than the  *)
(* rest of the run.  A burst has from 2 messages up to the generator's     *)
(* per-tick cap.  The result is the set of <<delay, timing>>.              *)
(***************************************************************************)
TimingModel_init == [burst_remaining |-> 0]

\* a _start_burst that does not count the delay that starts the burst
start_burst_whole(tm, size) == [tm EXCEPT !.burst_remaining = Max(0, size)]

start_burst(tm, size) == [tm EXCEPT !.burst_remaining = Max(0, size - 1)]

next_delay_s(tm) ==
    IF tm.burst_remaining > 0
    THEN {<<0, [tm EXCEPT !.burst_remaining = @ - 1]>>}
    ELSE {<<0, start_burst(tm, size)>> : size \in 2..MaxSendPerTick}
         \cup {<<Quantum, tm>>, <<MaxTime * Quantum, tm>>}

(***************************************************************************)
(* timing_model.py: TimingModel, computed exactly.  Rates, fractions and   *)
(* delays are rationals; gaps are in ms.  Each result of next_delay_s is   *)
(* <<delay in seconds, timing>>.                                           *)
(***************************************************************************)
RLess(p, q) == p[1] * q[2] < q[1] * p[2]

\* Python's max(a, b) and min(a, b): a unless b is larger (smaller)
RMax(a, b) == IF RLess(a, b) THEN b ELSE a

RMin(a, b) == IF RLess(b, a) THEN b ELSE a

MsToS(ms) == Rat(ms[1], ms[2] * 1000)

TimingModel_new ==
    [mode |-> "preset", preset |-> "Steady", intensity |-> <<1, 2>>,
     base_rate |-> RInt(20), jitter_pct |-> RInt(0), burst_prob |-> RInt(0),
     burst_size_min |-> 2, burst_size_max |-> 4,
     min_gap_ms |-> RInt(0), max_gap_ms |-> RInt(1000),
     burst_remaining |-> 0]

set_preset(tm, name, intensity) ==
    [tm EXCEPT !.mode = "preset",
               !.preset = name,
               !.intensity = RMax(RInt(0), RMin(RInt(1), intensity))]

\* set_full that takes max_gap_ms as given
set_full_as_given(tm, base_rate, jitter_pct, burst_prob, burst_size_min, burst_size_max, min_gap_ms, max_gap_ms) ==
    [tm EXCEPT !.mode = "full",
               !.base_rate = RMax(<<1, 10>>, base_rate),
               !.jitter_pct = RMax(RInt(0), RMin(RInt(1), jitter_pct)),
               !.burst_prob = RMax(RInt(0), RMin(RInt(1), burst_prob)),
               !.burst_size_min = Max(1, burst_size_min),
               !.burst_size_max = Max(Max(1, burst_size_min), burst_size_max),
               !.min_gap_ms = RMax(RInt(0), min_gap_ms),
               !.max_gap_ms = max_gap_ms]

set_full(tm, base_rate, jitter_pct, burst_prob, burst_size_min, burst_size_max, min_gap_ms, max_gap_ms) ==
    [tm EXCEPT !.mode = "full",
               !.base_rate = RMax(<<1, 10>>, base_rate),
               !.jitter_pct = RMax(RInt(0), RMin(RInt(1), jitter_pct)),
               !.burst_prob = RMax(RInt(0), RMin(RInt(1), burst_prob)),
               !.burst_size_min = Max(1, burst_size_min),
               !.burst_size_max = Max(Max(1, burst_size_min), burst_size_max),
               !.min_gap_ms = RMax(RInt(0), min_gap_ms),
               !.max_gap_ms = RMax(RMax(RInt(0), min_gap_ms), max_gap_ms)]

\* random.random() < prob, random.random() in [0, 1): the outcomes possible
Bernoulli(prob) ==
    {b \in BOOLEAN : IF b THEN RLess(RInt(0), prob) ELSE RLess(prob, RInt(1))}

\* random.uniform(-1.0, 1.0), followed at its ends, at 0 and half way
Uniform == {RInt(0 - 1), <<0 - 1, 2>>, RInt(0), <<1, 2>>, RInt(1)}

next_delay_full(tm) ==
    LET base_interval == Rat(tm.base_rate[2], tm.base_rate[1])
        gap == RMax(MsToS(tm.min_gap_ms), RInt(0))
        Delay(u) ==
            LET jitter == RMul(RMul(u, tm.jitter_pct), base_interval)
                delay == RAdd(base_interval, jitter)
                floored == RMax(delay, MsToS(tm.min_gap_ms))
                capped == RMin(floored, MsToS(tm.max_gap_ms))
            IN  RMax(RInt(0), capped)
    IN  IF tm.burst_remaining > 0
        THEN {<<gap, [tm EXCEPT !.burst_remaining = @ - 1]>>}
        ELSE UNION {IF burst
                    THEN {<<gap, start_burst(tm, size)>>
                          : size \in tm.burst_size_min..tm.burst_size_max}
                    ELSE {<<Delay(u), tm>> : u \in Uniform}
                    : burst \in Bernoulli(tm.burst_prob)}

\* a Steady row that starts a burst one time in twenty
PresetRow_bursty(preset, intensity) ==
    [base_rate |-> RAdd(RInt(5), RMul(RInt(45), intensity)),
     jitter_pct |-> RInt(0),
     burst_prob |-> <<1, 20>>,
     burst_size_min |-> 2, burst_size_max |-> 3,
     min_gap_ms |-> RInt(0)]

\* the parameters _next_delay_preset derives from the preset and intensity
PresetRow(preset, intensity) ==
    LET int(x) == x[1] \div x[2]
    IN  \* int(x) for x >= 0
    IF preset = "Steady"
    THEN [base_rate |-> RAdd(RInt(5), RMul(RInt(45), intensity)),
          jitter_pct |-> RInt(0),
          burst_prob |-> RInt(0),
          burst_size_min |-> 2, burst_size_max |-> 3,
          min_gap_ms |-> RInt(0)]
    ELSE IF preset = "Jitter"
    THEN [base_rate |-> RAdd(RInt(5), RMul(RInt(45), intensity)),
          jitter_pct |-> RAdd(<<1, 10>>, RMul(<<7, 10>>, intensity)),
          burst_prob |-> RInt(0),
          burst_size_min |-> 2, burst_size_max |-> 4,
          min_gap_ms |-> RInt(0)]
    ELSE IF preset = "Burst"
    THEN [base_rate |-> RAdd(RInt(5), RMul(RInt(25), intensity)),
          jitter_pct |-> RAdd(<<1, 20>>, RMul(<<1, 5>>, intensity)),
          burst_prob |-> RAdd(<<1, 20>>, RMul(<<9, 20>>, intensity)),
          burst_size_min |-> 2, burst_size_max |-> 2 + int(RMul(RInt(8), intensity)),
          min_gap_ms |-> RInt(0)]
    ELSE [base_rate |-> RAdd(RInt(10), RMul(RInt(60), intensity)),
          jitter_pct |-> RAdd(<<1, 5>>, RMul(<<4, 5>>, intensity)),
          burst_prob |-> RAdd(<<1, 10>>, RMul(<<3, 5>>, intensity)),
          burst_size_min |-> 2, burst_size_max |-> 4 + int(RMul(RInt(10), intensity)),
          min_gap_ms |-> RInt(0)]

next_delay_preset(tm) ==
    LET row == PresetRow(tm.preset, tm.intensity)
        base_interval == Rat(row.base_rate[2], row.base_rate[1])
        gap == RMax(MsToS(row.min_gap_ms), RInt(0))
        Delay(u) ==
            LET jitter == RMul(RMul(u, row.jitter_pct), base_interval)
            IN  RMax(RInt(0), RAdd(base_interval, jitter))
    IN  IF tm.burst_remaining > 0
        THEN {<<gap, [tm EXCEPT !.burst_remaining = @ - 1]>>}
        ELSE UNION {IF burst
                    THEN {<<gap, start_burst(tm, size)>>
                          : size \in row.burst_size_min..row.burst_size_max}
                    ELSE {<<Delay(u), tm>> : u \in Uniform}
                    : burst \in Bernoulli(row.burst_prob)}

TimingModel_next_delay_s(tm) ==
    IF tm.mode = "full" THEN next_delay_full(tm) ELSE next_delay_preset(tm)

(***************************************************************************)
(* fuzz_test.py: FuzzGenerator                                             *)
(***************************************************************************)
\* note_length_ms = 100 (FuzzGenerator.__init__)
FuzzNoteLengthMs == 100

\* attempts of _generate_unique_spec
MaxAttempts == 50

FuzzGenerator_init ==
    [note_length_s |-> Max(0, FuzzNoteLengthMs),
     max_send_per_tick |-> MaxSendPerTick,
     enabled |-> FALSE,
     mode |-> "single",
     single_type |-> TYPE_CC,
     allowed_types |-> ALL_TYPES,
     vary_number |-> TRUE,
     vary_value |-> TRUE,
     randomize_channel |-> FALSE,
     next_send_time |-> None,
     note_off_schedule |-> <<>>,
     sent_count |-> 0]

FuzzGenerator_start(s, t) ==
    [s EXCEPT !.gen = [@ EXCEPT !.enabled = TRUE,
                                !.next_send_time = t,
                                !.note_off_schedule = <<>>,
                                !.sent_count = 0]]

FuzzGenerator_stop(s) ==
    [s EXCEPT !.gen = [@ EXCEPT !.enabled = FALSE,
                                !.next_send_time = None,
                                !.note_off_schedule = <<>>]]

\* while note_off_schedule and note_off_schedule[0][0] <= now: popleft, send
RECURSIVE FlushNoteOffs(_, _, _)
FlushNoteOffs(schedule, out, now_) ==
    IF schedule = <<>> \/ ~(Head(schedule)[1] <= now_)
    THEN [schedule |-> schedule, out |-> out]
    ELSE FlushNoteOffs(Tail(schedule),
                       send_note(out, Head(schedule)[3], Head(schedule)[2], 0),
                       now_)

FuzzGenerator_flush_note_offs(s, now_) ==
    LET r == FlushNoteOffs(s.gen.note_off_schedule, s.out, now_)
    IN  [s EXCEPT !.gen.note_off_schedule = r.schedule, !.out = r.out]

FuzzGenerator_send_spec(s, spec, now_) ==
    IF spec.mtype = TYPE_NOTE
    THEN [s EXCEPT
            !.out = send_note(@, spec.channel, spec.number, spec.value),
            !.gen.note_off_schedule =
                IF s.gen.note_length_s > 0
                THEN Append(@, <<now_ + s.gen.note_length_s, spec.number, spec.channel>>)
                ELSE @]
    ELSE [s EXCEPT !.out = send_other(@)]

\* the specs _generate_spec can return
generate_spec(gen, selected_channel) ==
    LET mtypes == IF gen.mode = "single" THEN {gen.single_type}
                  ELSE IF gen.mode = "mixed"
                       THEN (IF gen.allowed_types # <<>> THEN Choice(gen.allowed_types)
                             ELSE {gen.single_type})
                       ELSE Choice(ALL_TYPES)
        channels == IF gen.randomize_channel THEN RandInt(0, 15)
                    ELSE {IF selected_channel = -1 THEN 0 ELSE selected_channel}
    IN  IF gen.mode = "single"
        THEN UNION {random_spec(t, c, gen.vary_number, gen.vary_value,
                                PROBE_DEFAULTS[t].number, PROBE_DEFAULTS[t].value)
                    : t \in mtypes, c \in channels}
        ELSE UNION {random_spec(t, c, TRUE, TRUE, None, None) : t \in mtypes, c \in channels}

\* the results the for loop of _generate_unique_spec can return from its
\* attempt number `attempt` on: a candidate that is not pending, or NoSpec
\* once every attempt has drawn a pending candidate
\* a loop that returns its last candidate when the attempts are used up
RECURSIVE UniqueAttempts_last(_, _, _)
UniqueAttempts_last(cands, free, attempt) ==
    IF ~(attempt < MaxAttempts) THEN cands
    ELSE free \cup (IF free # cands THEN UniqueAttempts_last(cands, free, attempt + 1) ELSE {})

RECURSIVE UniqueAttempts(_, _, _)
UniqueAttempts(cands, free, attempt) ==
    IF ~(attempt < MaxAttempts) THEN {NoSpec}
    ELSE free \cup (IF free # cands THEN UniqueAttempts(cands, free, attempt + 1) ELSE {})

\* a generator that sends its first candidate without looking at pending
generate_unique_spec_any(gen, selected_channel, pending) ==
    generate_spec(gen, selected_channel)

generate_unique_spec(gen, selected_channel, pending) ==
    LET cands == generate_spec(gen, selected_channel)
        free == {c \in cands : identity(c) \notin DOMAIN pending}
    IN  UniqueAttempts(cands, free, 0)

\* one iteration of the while loop of tick, after a spec was found
TickSend(s, spec, now_, delay) ==
    LET sent == register_sent(FuzzGenerator_send_spec(s, spec, now_), spec, now_)
    IN  [sent EXCEPT !.gen.sent_count = @ + 1,
                     !.gen.next_send_time = now_ + delay[1],
                     !.tm = delay[2]]

\* the states the while loop of tick can end in
RECURSIVE TickLoop(_, _, _, _)
TickLoop(s, now_, selected_channel, send_count) ==
    IF ~(now_ >= s.gen.next_send_time /\ send_count < s.gen.max_send_per_tick) THEN {s}
    ELSE IF Len(s.au.ledger) >= MaxSends THEN {}
    ELSE UNION {
            IF spec = NoSpec THEN {s}
            ELSE UNION {TickLoop(TickSend(s, spec, now_, delay), now_, selected_channel,
                                 send_count + 1)
                        : delay \in next_delay_s(s.tm)}
            : spec \in generate_unique_spec(s.gen, selected_channel, s.an.pending)}

\* the states FuzzGenerator.tick can end in
FuzzGenerator_tick(s, now_, selected_channel) ==
    IF ~s.gen.enabled THEN {s}
    ELSE LET flushed == FuzzGenerator_flush_note_offs(s, now_)
             armed == IF flushed.gen.next_send_time = None
                      THEN [flushed EXCEPT !.gen.next_send_time = now_]
                      ELSE flushed
         IN  TickLoop(armed, now_, selected_channel, 0)

(***************************************************************************)
(* fuzz_test.py: FuzzTest                                                  *)
(***************************************************************************)
\* a set_enabled(True) that starts the test again while it runs
FuzzTest_set_enabled_restart(s, enabled, t) ==
    IF enabled THEN FuzzGenerator_start(FuzzAnalyzer_start(s, t), t)
    ELSE IF s.gen.enabled THEN FuzzAnalyzer_stop(FuzzGenerator_stop(s))
    ELSE s

FuzzTest_set_enabled(s, enabled, t) ==
    IF enabled /\ ~s.gen.enabled THEN FuzzGenerator_start(FuzzAnalyzer_start(s, t), t)
    ELSE IF ~enabled /\ s.gen.enabled THEN FuzzAnalyzer_stop(FuzzGenerator_stop(s))
    ELSE s

\* a tick that checks the timeouts before it matches the events
FuzzTest_tick_timeouts_first(s, events, selected_channel, now_) ==
    IF s.gen.enabled
    THEN FuzzGenerator_tick(process_events(check_timeouts(s, now_), events, now_),
                            now_, selected_channel)
    ELSE {s}

FuzzTest_tick(s, events, selected_channel, now_) ==
    IF s.gen.enabled
    THEN FuzzGenerator_tick(check_timeouts(process_events(s, events, now_), now_),
                            now_, selected_channel)
    ELSE {s}

(***************************************************************************)
(* endurance_monitor.py: EnduranceLatencyMonitor                           *)
(* The operators take and return the record m of the monitor's objects:    *)
(* m.mon the monitor, m.out wire history, m.au audit history.  Seconds are *)
(* milliseconds here, hertz are millihertz.  A label f"Note {n}" is the    *)
(* tuple <<"Note", n>>.                                                    *)
(***************************************************************************)
NoProbe ==
    [send_time |-> None, deadline |-> None, channel |-> None,
     expected |-> EmptyMap, received |-> EmptyMap, serial |-> 0]

NoResult == [round_trip_ms |-> None, spread_ms |-> None, elapsed_min |-> <<None>>]

label_for_spec(spec) ==
    CASE spec.mtype = TYPE_NOTE -> <<"Note", spec.number>>
      [] spec.mtype = TYPE_CC   -> <<"CC", spec.number>>
      [] spec.mtype = TYPE_CC14 -> <<"CC14", spec.number>>
      [] spec.mtype = TYPE_NRPN -> <<"NRPN", spec.number>>
      [] spec.mtype = TYPE_PC   -> <<"PC", spec.number>>
      [] spec.mtype = TYPE_PB   -> <<"PB">>
      [] OTHER -> <<spec.mtype>>

RECURSIVE build_offset_labels(_, _)
build_offset_labels(probe_types, probe_notes) ==
    IF probe_types = <<>> THEN <<>>
    ELSE LET mtype == Head(probe_types)
             here == CASE mtype = TYPE_NOTE ->
                              [i \in 1..Len(probe_notes) |-> <<"Note", probe_notes[i]>>]
                       [] mtype = TYPE_CC   -> <<<<"CC", PROBE_DEFAULTS[mtype].number>>>>
                       [] mtype = TYPE_CC14 -> <<<<"CC14", PROBE_DEFAULTS[mtype].number>>>>
                       [] mtype = TYPE_NRPN -> <<<<"NRPN", PROBE_DEFAULTS[mtype].number>>>>
                       [] mtype = TYPE_PC   -> <<<<"PC", PROBE_DEFAULTS[mtype].number>>>>
                       [] mtype = TYPE_PB   -> <<<<"PB">>>>
                       [] OTHER -> <<>>
         IN  here \o build_offset_labels(Tail(probe_types), probe_notes)

init_offset_buffers(mon) ==
    LET labels == build_offset_labels(mon.probe_types, mon.probe_notes)
    IN  [mon EXCEPT !.offset_labels = labels,
                    !.offsets_x = [l \in SeqToSet(labels) |-> <<>>],
                    !.offsets_y = [l \in SeqToSet(labels) |-> <<>>]]

Endurance_init ==
    init_offset_buffers(
        [enabled |-> FALSE,
         min_interval_s |-> 1,
         max_interval_s |-> 5000,
         interval_s |-> 5000,
         probe_notes |-> <<60, 64, 67, 72>>,
         velocity |-> 100,
         note_length_s |-> Max(0, 50),
         max_points |-> MaxPoints,
         probe_types |-> <<TYPE_NOTE>>,
         mod_enabled |-> FALSE,
         mod_freq_hz |-> 500,
         mod_depth_s |-> 0,
         start_time |-> None,
         next_probe_time |-> None,
         active_probe |-> NoProbe,
         note_off_schedule |-> <<>>,
         results_x |-> <<>>,
         results_y |-> <<>>,
         offsets_x |-> EmptyMap,
         offsets_y |-> EmptyMap,
         offset_labels |-> <<>>,
         last_result |-> NoResult,
         missed_probes |-> 0,
         probes_sent |-> 0,
         plot_dirty |-> FALSE,
         new_result |-> FALSE])

\* audit: the outstanding chord is discarded without being finalized
ChordDropped(m) ==
    IF m.mon.active_probe = NoProbe THEN m.au.ledger
    ELSE [m.au.ledger EXCEPT ![m.mon.active_probe.serial].res = "dropped"]

\* a start that schedules the first probe one interval later
Endurance_start_later(m, t) ==
    [m EXCEPT !.mon = init_offset_buffers(
                        [@ EXCEPT !.enabled = TRUE,
                                  !.start_time = t,
                                  !.next_probe_time = t + m.mon.interval_s,
                                  !.active_probe = NoProbe,
                                  !.note_off_schedule = <<>>,
                                  !.results_x = <<>>,
                                  !.results_y = <<>>,
                                  !.last_result = NoResult,
                                  !.missed_probes = 0,
                                  !.probes_sent = 0,
                                  !.plot_dirty = TRUE,
                                  !.new_result = FALSE]),
              !.au.ledger = ChordDropped(m)]

Endurance_start(m, t) ==
    [m EXCEPT !.mon = init_offset_buffers(
                        [@ EXCEPT !.enabled = TRUE,
                                  !.start_time = t,
                                  !.next_probe_time = t,
                                  !.active_probe = NoProbe,
                                  !.note_off_schedule = <<>>,
                                  !.results_x = <<>>,
                                  !.results_y = <<>>,
                                  !.last_result = NoResult,
                                  !.missed_probes = 0,
                                  !.probes_sent = 0,
                                  !.plot_dirty = TRUE,
                                  !.new_result = FALSE]),
              !.au.ledger = ChordDropped(m)]

\* a stop that only clears the enabled flag
Endurance_stop_keep(m) == [m EXCEPT !.mon.enabled = FALSE]

Endurance_stop(m) ==
    [m EXCEPT !.mon = [@ EXCEPT !.enabled = FALSE,
                                !.active_probe = NoProbe,
                                !.note_off_schedule = <<>>],
              !.au.ledger = ChordDropped(m)]

Endurance_set_enabled(m, enabled, t) ==
    IF enabled /\ ~m.mon.enabled THEN Endurance_start(m, t)
    ELSE IF ~enabled /\ m.mon.enabled THEN Endurance_stop(m)
    ELSE m

clear_results(mon) ==
    [init_offset_buffers([mon EXCEPT !.results_x = <<>>, !.results_y = <<>>])
        EXCEPT !.last_result = NoResult,
               !.missed_probes = 0,
               !.probes_sent = 0,
               !.plot_dirty = TRUE,
               !.new_result = FALSE]

\* math.sin(2 pi f t) at the quarter turns, f in mHz and t in ms; at any
\* other phase the value is some number of [-1, 1], followed at -1, 0 and 1
Sin(freq, phase_t) ==
    LET quarters == 4 * freq * phase_t
    IN  IF quarters % 1000000 = 0
        THEN {CASE (quarters \div 1000000) % 4 = 1 -> 1
                [] (quarters \div 1000000) % 4 = 3 -> 0 - 1
                [] OTHER -> 0}
        ELSE {0 - 1, 0, 1}

\* the values _current_interval(now) can return
current_interval(mon, now_) ==
    IF ~mon.mod_enabled \/ mon.mod_freq_hz <= 0 \/ mon.mod_depth_s <= 0
    THEN {mon.interval_s}
    ELSE LET phase_t == IF mon.start_time = None THEN 0 ELSE now_ - mon.start_time
         IN  {Max(mon.min_interval_s,
                  Min(mon.max_interval_s, mon.interval_s + mon.mod_depth_s * sn))
                : sn \in Sin(mon.mod_freq_hz, phase_t)}

\* the states _reschedule_next() can end in
reschedule_next(mon, now_) ==
    IF ~mon.enabled THEN {mon}
    ELSE {[mon EXCEPT !.next_probe_time = now_ + iv] : iv \in current_interval(mon, now_)}

\* a set_interval that stores the argument as it is
set_interval_raw(mon, seconds, now_) ==
    reschedule_next([mon EXCEPT !.interval_s = seconds], now_)

set_interval(mon, seconds, now_) ==
    reschedule_next(
        [mon EXCEPT !.interval_s = Max(mon.min_interval_s, Min(mon.max_interval_s, seconds))],
        now_)

\* an argument left at None is the empty tuple, a given one is <<value>>
set_modulation(mon, enabled, freq_hz, depth_ms, now_) ==
    reschedule_next(
        [mon EXCEPT !.mod_enabled = IF enabled # <<>> THEN enabled[1] ELSE @,
                    !.mod_freq_hz = IF freq_hz # <<>> THEN Max(0, freq_hz[1]) ELSE @,
                    !.mod_depth_s = IF depth_ms # <<>> THEN Max(0, depth_ms[1]) ELSE @],
        now_)

\* max(min_interval_s, min(2.0, interval_s * 0.8)); interval_s is 1 ms or a
\* multiple of 5 ms, so that the integer quotient is the product
get_timeout_s(mon) == Max(mon.min_interval_s, Min(2000, (mon.interval_s * 8) \div 10))

\* a cleaning of the notes argument that keeps repeated notes
RECURSIVE CleanNotes_repeated(_, _)
CleanNotes_repeated(notes, clean) ==
    IF notes = <<>> THEN clean
    ELSE LET n == Head(notes)
         IN  IF n.ok /\ 0 <= n.val /\ n.val <= 127
             THEN CleanNotes_repeated(Tail(notes), Append(clean, n.val))
             ELSE CleanNotes_repeated(Tail(notes), clean)

\* int(n) of one entry of the notes argument: [ok |-> it converts, val |-> to what]
RECURSIVE CleanNotes(_, _)
CleanNotes(notes, clean) ==
    IF notes = <<>> THEN clean
    ELSE LET n == Head(notes)
         IN  IF n.ok /\ 0 <= n.val /\ n.val <= 127 /\ n.val \notin SeqToSet(clean)
             THEN CleanNotes(Tail(notes), Append(clean, n.val))
             ELSE CleanNotes(Tail(notes), clean)

\* a setter that installs the cleaned list even when it is empty
set_probe_notes_any(m, notes) ==
    LET clean == CleanNotes(notes, <<>>)
    IN  IF clean # m.mon.probe_notes
        THEN [m EXCEPT !.mon = clear_results([@ EXCEPT !.probe_notes = clean,
                                                       !.active_probe = NoProbe,
                                                       !.note_off_schedule = <<>>]),
                       !.au.ledger = ChordDropped(m)]
        ELSE m

set_probe_notes(m, notes) ==
    LET clean == CleanNotes(notes, <<>>)
    IN  IF clean # <<>> /\ clean # m.mon.probe_notes
        THEN [m EXCEPT !.mon = clear_results([@ EXCEPT !.probe_notes = clean,
                                                       !.active_probe = NoProbe,
                                                       !.note_off_schedule = <<>>]),
                       !.au.ledger = ChordDropped(m)]
        ELSE m

\* an entry of the types argument is a type name; "" is a falsy entry
RECURSIVE CleanTypes(_, _)
CleanTypes(types, clean) ==
    IF types = <<>> THEN clean
    ELSE IF Head(types) # "" /\ Head(types) \notin SeqToSet(clean)
         THEN CleanTypes(Tail(types), Append(clean, Head(types)))
         ELSE CleanTypes(Tail(types), clean)

set_probe_types(m, types) ==
    LET clean == CleanTypes(types, <<>>)
    IN  IF clean # <<>> /\ clean # m.mon.probe_types
        THEN [m EXCEPT !.mon = clear_results([@ EXCEPT !.probe_types = clean,
                                                       !.active_probe = NoProbe,
                                                       !.note_off_schedule = <<>>]),
                       !.au.ledger = ChordDropped(m)]
        ELSE m

Endurance_flush_note_offs(m, now_) ==
    LET r == FlushNoteOffs(m.mon.note_off_schedule, m.out, now_)
    IN  [m EXCEPT !.mon.note_off_schedule = r.schedule, !.out = r.out]

\* a dispersion with the seconds-to-milliseconds factor applied to milliseconds
SpreadMs_twice(first_time, last_time) == Max(0, (last_time - first_time) * 1000)

\* spread_ms = max(0.0, (last_time - first_time) * 1000.0), times in seconds
SpreadMs(first_time, last_time) == Max(0, last_time - first_time)

finalize_probe(m, complete) ==
    LET probe == m.mon.active_probe
        cleared == [m EXCEPT !.mon.active_probe = NoProbe]
    IN  IF probe = NoProbe THEN cleared
        ELSE IF ~complete \/ DOMAIN probe.received = {}
        THEN [cleared EXCEPT !.mon.missed_probes = @ + 1,
                             !.au.ledger[probe.serial] =
                                 [@ EXCEPT !.res = Resolve(@, "missed"),
                                           !.got = Cardinality(DOMAIN probe.received)]]
        ELSE LET recv_times == {probe.received[l] : l \in DOMAIN probe.received}
                 first_time == CHOOSE t \in recv_times : \A u \in recv_times : t <= u
                 last_time == CHOOSE t \in recv_times : \A u \in recv_times : t >= u
                 round_trip_ms == Max(0, first_time - probe.send_time)
                 spread_ms == SpreadMs(first_time, last_time)
                 elapsed_min == ElapsedMin(probe.send_time, m.mon.start_time)
                 labels == DOMAIN probe.received
                 Grow(old, val) ==
                     [l \in (DOMAIN old) \cup labels |->
                         IF l \in labels
                         THEN DequeAppend(IF l \in DOMAIN old THEN old[l] ELSE <<>>,
                                          val[l], m.mon.max_points)
                         ELSE old[l]]
             IN  [cleared EXCEPT
                    !.mon = [@ EXCEPT
                               !.results_x = DequeAppend(@, elapsed_min, m.mon.max_points),
                               !.results_y = DequeAppend(@, spread_ms, m.mon.max_points),
                               !.offsets_x = Grow(@, [l \in labels |-> elapsed_min]),
                               !.offsets_y = Grow(@, [l \in labels |->
                                                 Max(0, probe.received[l] - first_time)]),
                               !.last_result = [round_trip_ms |-> round_trip_ms,
                                                spread_ms |-> spread_ms,
                                                elapsed_min |-> elapsed_min],
                               !.plot_dirty = TRUE,
                               !.new_result = TRUE],
                    !.au.ledger[probe.serial] =
                        [@ EXCEPT !.res = Resolve(@, "complete"),
                                  !.got = Cardinality(DOMAIN probe.received),
                                  !.late = \E t \in recv_times : t >= probe.deadline]]

\* a _process_events loop that keeps the time of the last response for a label
RECURSIVE ProcessChordEvents_last(_, _, _)
ProcessChordEvents_last(m, events, now_) ==
    IF events = <<>> THEN m
    ELSE LET e == Head(events)
             spec == event_to_spec(e)
             id == identity(spec)
             probe == m.mon.active_probe
         IN  IF spec = NoSpec \/ id \notin DOMAIN probe.expected
             THEN ProcessChordEvents_last(m, Tail(events), now_)
             ELSE LET got == [m EXCEPT
                                !.mon.active_probe.received =
                                    MapPut(@, probe.expected[id], EventTime(e, now_)),
                                !.au.miscredit = @ \/ e.cause # probe.serial]
                  IN  IF Cardinality(DOMAIN got.mon.active_probe.received)
                            = Cardinality(DOMAIN probe.expected)
                      THEN finalize_probe(got, TRUE)
                      ELSE ProcessChordEvents_last(got, Tail(events), now_)

\* the for loop of _process_events, with its break after a completed chord
RECURSIVE ProcessChordEvents(_, _, _)
ProcessChordEvents(m, events, now_) ==
    IF events = <<>> THEN m
    ELSE LET e == Head(events)
             spec == event_to_spec(e)
             id == identity(spec)
             probe == m.mon.active_probe
         IN  IF spec = NoSpec \/ id \notin DOMAIN probe.expected
             THEN ProcessChordEvents(m, Tail(events), now_)
             ELSE IF probe.expected[id] \in DOMAIN probe.received
             THEN ProcessChordEvents(m, Tail(events), now_)
             ELSE LET got == [m EXCEPT
                                !.mon.active_probe.received =
                                    MapPut(@, probe.expected[id], EventTime(e, now_)),
                                !.au.miscredit = @ \/ e.cause # probe.serial]
                  IN  IF Cardinality(DOMAIN got.mon.active_probe.received)
                            = Cardinality(DOMAIN probe.expected)
                      THEN finalize_probe(got, TRUE)
                      ELSE ProcessChordEvents(got, Tail(events), now_)

Endurance_process_events(m, events, now_) ==
    IF m.mon.active_probe = NoProbe THEN m ELSE ProcessChordEvents(m, events, now_)

\* a _check_timeout that fires only after the deadline has passed
check_timeout_strict(m, now_) ==
    IF m.mon.active_probe = NoProbe THEN m
    ELSE IF now_ > m.mon.active_probe.deadline THEN finalize_probe(m, FALSE)
    ELSE m

\* a _check_timeout that takes a chord with some response for a complete one
check_timeout_partial(m, now_) ==
    IF m.mon.active_probe = NoProbe THEN m
    ELSE IF now_ >= m.mon.active_probe.deadline
    THEN finalize_probe(m, DOMAIN m.mon.active_probe.received # {})
    ELSE m

check_timeout(m, now_) ==
    IF m.mon.active_probe = NoProbe THEN m
    ELSE IF now_ >= m.mon.active_probe.deadline THEN finalize_probe(m, FALSE)
    ELSE m

Endurance_send_spec(out, spec) ==
    IF spec.mtype \in {TYPE_CC, TYPE_CC14, TYPE_NRPN, TYPE_PC, TYPE_PB} THEN send_other(out)
    ELSE out

\* the inner loop of _send_probe over probe_notes; acc holds the expected map,
\* the wire history and the note-off schedule
RECURSIVE SendProbeNotes(_, _, _, _, _)
SendProbeNotes(acc, mon, notes, now_, channel) ==
    IF notes = <<>> THEN acc
    ELSE LET spec == CHOOSE sp \in random_spec(TYPE_NOTE, channel, FALSE, FALSE,
                                               Head(notes), mon.velocity) : TRUE
         IN  SendProbeNotes(
                [expected |-> MapPut(acc.expected, identity(spec), label_for_spec(spec)),
                 out |-> send_note(acc.out, channel, spec.number, spec.value),
                 schedule |-> IF mon.note_length_s > 0
                              THEN Append(acc.schedule,
                                          <<now_ + mon.note_length_s, spec.number, channel>>)
                              ELSE acc.schedule],
                mon, Tail(notes), now_, channel)

\* the outer loop of _send_probe over probe_types
RECURSIVE SendProbeTypes(_, _, _, _, _)
SendProbeTypes(acc, mon, types, now_, channel) ==
    IF types = <<>> THEN acc
    ELSE LET mtype == Head(types)
         IN  IF mtype = TYPE_NOTE
             THEN SendProbeTypes(SendProbeNotes(acc, mon, mon.probe_notes, now_, channel),
                                 mon, Tail(types), now_, channel)
             ELSE LET spec == CHOOSE sp \in random_spec(mtype, channel, FALSE, FALSE,
                                                        PROBE_DEFAULTS[mtype].number,
                                                        PROBE_DEFAULTS[mtype].value) : TRUE
                  IN  SendProbeTypes(
                         [acc EXCEPT
                            !.expected = MapPut(@, identity(spec), label_for_spec(spec)),
                            !.out = Endurance_send_spec(@, spec)],
                         mon, Tail(types), now_, channel)

send_probe(m, now_, channel) ==
    LET acc == SendProbeTypes([expected |-> EmptyMap, out |-> m.out,
                               schedule |-> m.mon.note_off_schedule],
                              m.mon, m.mon.probe_types, now_, channel)
        sent == [m EXCEPT !.out = acc.out, !.mon.note_off_schedule = acc.schedule]
        serial == Len(m.au.ledger) + 1
    IN  IF DOMAIN acc.expected = {} THEN sent
        ELSE [sent EXCEPT
                !.mon.active_probe = [send_time |-> now_,
                                      deadline |-> now_ + get_timeout_s(m.mon),
                                      channel |-> channel,
                                      expected |-> acc.expected,
                                      received |-> EmptyMap,
                                      serial |-> serial],
                !.mon.probes_sent = @ + 1,
                !.au.ledger = Append(ChordDropped(m),
                                     [ids |-> DOMAIN acc.expected, res |-> "pending",
                                      got |-> 0, late |-> FALSE])]

\* a _maybe_send_probe that sends the new chord over the outstanding one
maybe_send_probe_over(m, now_, selected_channel) ==
    LET armed == IF m.mon.next_probe_time = None
                 THEN [m EXCEPT !.mon.next_probe_time = now_]
                 ELSE m
    IN  IF now_ < armed.mon.next_probe_time THEN {armed}
        ELSE LET channel == IF selected_channel = -1 THEN 0 ELSE selected_channel
                 sent == send_probe(armed, now_, channel)
             IN  {[sent EXCEPT !.mon.next_probe_time = now_ + iv]
                    : iv \in current_interval(sent.mon, now_)}

\* a _maybe_send_probe that lets a due cycle pass while a chord is outstanding
maybe_send_probe_skip(m, now_, selected_channel) ==
    LET armed == IF m.mon.next_probe_time = None
                 THEN [m EXCEPT !.mon.next_probe_time = now_]
                 ELSE m
    IN  IF now_ < armed.mon.next_probe_time \/ armed.mon.active_probe # NoProbe THEN {armed}
        ELSE LET channel == IF selected_channel = -1 THEN 0 ELSE selected_channel
                 sent == send_probe(armed, now_, channel)
             IN  {[sent EXCEPT !.mon.next_probe_time = now_ + iv]
                    : iv \in current_interval(sent.mon, now_)}

\* the states _maybe_send_probe can end in
maybe_send_probe(m, now_, selected_channel) ==
    LET armed == IF m.mon.next_probe_time = None
                 THEN [m EXCEPT !.mon.next_probe_time = now_]
                 ELSE m
    IN  IF now_ < armed.mon.next_probe_time THEN {armed}
        ELSE LET ended == IF armed.mon.active_probe # NoProbe
                          THEN finalize_probe(armed, FALSE)
                          ELSE armed
                 channel == IF selected_channel = -1 THEN 0 ELSE selected_channel
                 sent == send_probe(ended, now_, channel)
             IN  {[sent EXCEPT !.mon.next_probe_time = now_ + iv]
                    : iv \in current_interval(sent.mon, now_)}

\* the states tick can end in
Endurance_tick(m, events, selected_channel, now_) ==
    IF ~m.mon.enabled THEN {m}
    ELSE {[r EXCEPT !.mon.new_result = FALSE]
            : r \in maybe_send_probe(
                       check_timeout(
                           Endurance_process_events(Endurance_flush_note_offs(m, now_),
                                                    events, now_),
                           now_),
                       now_, selected_channel)}

\* a tick that hands out last_result whenever there is one
Endurance_tick_returns_stale(m, events, selected_channel, now_) ==
    IF ~m.mon.enabled THEN {NoResult}
    ELSE {IF r.mon.last_result # NoResult THEN r.mon.last_result ELSE NoResult
            : r \in maybe_send_probe(
                       check_timeout(
                           Endurance_process_events(Endurance_flush_note_offs(m, now_),
                                                    events, now_),
                           now_),
                       now_, selected_channel)}

\* the values tick can return: last_result when _new_result is set, else
\* None (NoResult)
Endurance_tick_returns(m, events, selected_channel, now_) ==
    IF ~m.mon.enabled THEN {NoResult}
    ELSE {IF r.mon.new_result THEN r.mon.last_result ELSE NoResult
            : r \in maybe_send_probe(
                       check_timeout(
                           Endurance_process_events(Endurance_flush_note_offs(m, now_),
                                                    events, now_),
                           now_),
                       now_, selected_channel)}

(***************************************************************************)
(* processor.py: MidiProcessor.  A state is [proc, out, au]: the           *)
(* processor, the backend's wire and the audit ledger.  An incoming event  *)
(* is known by its place in the ledger, which keeps for each event its     *)
(* arrival time, the release time computed for it (None when it is not     *)
(* scheduled), the time it was sent back (None until then) and its rank    *)
(* among the events sent back.  Times and delays are in ms.                *)
(***************************************************************************)
MidiProcessor_init == [feedback_mode |-> "NONE", delay_ms |-> 0, scheduled_events |-> <<>>]

set_feedback_mode(p, mode) ==
    [p EXCEPT !.feedback_mode = mode, !.scheduled_events = <<>>]

set_delay(p, ms) == [p EXCEPT !.delay_ms = Max(0, ms)]

\* self.midi.send_event_struct(event) at current_time
SendBack(s, event, current_time) ==
    [s EXCEPT !.out = send_other(s.out),
              !.au.ledger[event].sent_at = current_time,
              !.au.ledger[event].rank = s.out.sent + 1]

RECURSIVE process_incoming_events(_, _, _)
process_incoming_events(s, events, current_time) ==
    IF events = <<>> THEN s
    ELSE LET event == Len(s.au.ledger) + 1
             release_time == current_time + s.proc.delay_ms
             arrived == [s EXCEPT !.au.ledger =
                            Append(@, [arrival |-> current_time,
                                       release |-> IF s.proc.feedback_mode = "DELAYED"
                                                   THEN release_time ELSE None,
                                       sent_at |-> None, rank |-> 0])]
             step == IF s.proc.feedback_mode = "IMMEDIATE"
                     THEN SendBack(arrived, event, current_time)
                     ELSE IF s.proc.feedback_mode = "DELAYED"
                     THEN [arrived EXCEPT !.proc.scheduled_events =
                              Append(@, <<release_time, event>>)]
                     ELSE arrived
         IN  process_incoming_events(step, Tail(events), current_time)

\* a process_scheduled_events that sends every event that is due, wherever
\* it stands in the buffer
RECURSIVE process_scheduled_events_due(_, _)
process_scheduled_events_due(s, current_time) ==
    IF s.proc.feedback_mode # "DELAYED" THEN s
    ELSE LET due == {i \in 1..Len(s.proc.scheduled_events)
                       : current_time >= s.proc.scheduled_events[i][1]}
         IN  IF due = {} THEN s
             ELSE LET i == CHOOSE j \in due : \A k \in due : j <= k
                      buf == s.proc.scheduled_events
                  IN  process_scheduled_events_due(
                          [SendBack(s, buf[i][2], current_time)
                             EXCEPT !.proc.scheduled_events =
                                       SubSeq(buf, 1, i - 1) \o SubSeq(buf, i + 1, Len(buf))],
                          current_time)

RECURSIVE process_scheduled_events(_, _)
process_scheduled_events(s, current_time) ==
    IF s.proc.feedback_mode # "DELAYED" \/ s.proc.scheduled_events = <<>> THEN s
    ELSE LET release_time == Head(s.proc.scheduled_events)[1]
             event == Head(s.proc.scheduled_events)[2]
         IN  IF current_time >= release_time
             THEN process_scheduled_events(
                      [SendBack(s, event, current_time)
                         EXCEPT !.proc.scheduled_events = Tail(@)],
                      current_time)
             ELSE s

(***************************************************************************)
(* The fuzz test as a state machine                                        *)
(***************************************************************************)
Audit_init == [ledger |-> <<>>, premature |-> FALSE, miscredit |-> FALSE]

FuzzState ==
    [an |-> analyzer, gen |-> generator, tm |-> timing,
     out |-> [midi EXCEPT !.sent = 0], au |-> audit]

FuzzBecomes(s) ==
    /\ analyzer' = s.an
    /\ generator' = s.gen
    /\ timing' = s.tm
    /\ midi' = s.out
    /\ audit' = s.au

\* the clock values the next tick can read
Clock == {now + Quantum} \cap 0..(MaxTime * Quantum)

\* get_selected_channel(): the channel selector is left at Omni
SelectedChannels == {-1}

\* how long before the tick the decoder stamped an event
Lags == {Quantum \div 2}

SpecOfId(id) == MessageSpec(id[1], id[2], id[3], id[4])

\* events the device can deliver to a tick at time t: an echo of any message
\* sent so far (late and duplicate echoes included), the echo of a note-off,
\* and a polyphonic aftertouch message
FuzzInbound(t) ==
    {EchoEvent(SpecOfId(audit.ledger[u].id), ts, u)
        : u \in 1..Len(audit.ledger), ts \in {t - lag : lag \in Lags}}
    \cup {[type |-> TYPE_NOTE, channel |-> 0, note |-> 60, velocity |-> 0,
           timestamp |-> NoTimestamp, cause |-> 0],
          [type |-> "poly_at", channel |-> 0, note |-> 60, value |-> 1,
           timestamp |-> NoTimestamp, cause |-> 0]}

EventLists(E) == UNION {[1..n -> E] : n \in 0..MaxEvents}

FuzzSetEnabled(enabled) ==
    /\ driver = "fuzz"
    /\ FuzzBecomes(FuzzTest_set_enabled(FuzzState, enabled, now))
    /\ UNCHANGED <<now, driver, endurance, processor>>

FuzzTick ==
    /\ driver = "fuzz"
    /\ \E t \in Clock, selected_channel \in SelectedChannels :
         \E events \in EventLists(FuzzInbound(t)) :
           \E s \in FuzzTest_tick(FuzzState, events, selected_channel, t) :
              /\ now' = t
              /\ FuzzBecomes(s)
    /\ UNCHANGED <<driver, endurance, processor>>

\* gui.py apply_settings(section "fuzz"): the generator settings restored at
\* start-up.  The model follows the single-mode settings with at most one
\* variation flag set, and the mixed and chaos modes (which do not read the
\* type and the number/value flags) on the selected channel.
ApplyFuzzSettings(gen, cfg) ==
    [gen EXCEPT !.mode = cfg.mode,
                !.single_type = cfg.single_type,
                !.vary_number = cfg.vary_number,
                !.vary_value = cfg.vary_value,
                !.randomize_channel = cfg.randomize_channel]

FuzzNext ==
    \/ \E enabled \in BOOLEAN : FuzzSetEnabled(enabled)
    \/ FuzzTick

(***************************************************************************)
(* The endurance monitor as a state machine                                *)
(***************************************************************************)
EnduranceState == [mon |-> endurance, out |-> [midi EXCEPT !.sent = 0], au |-> audit]

EnduranceBecomes(m) ==
    /\ endurance' = m.mon
    /\ midi' = m.out
    /\ audit' = m.au

\* events the device can deliver to a tick at time t: an echo of any message
\* of the last two chords sent so far (the outstanding chord and the one
\* before it), the echo of a note-off, and a polyphonic aftertouch message
EnduranceInbound(t) ==
    UNION {{EchoEvent(SpecOfId(id), ts, c)
              : id \in audit.ledger[c].ids,
                ts \in {t - lag : lag \in Lags}}
            : c \in (Len(audit.ledger) - 1)..Len(audit.ledger) \cap 1..Len(audit.ledger)}
    \cup {[type |-> TYPE_NOTE, channel |-> 0, note |-> 60, velocity |-> 0,
           timestamp |-> NoTimestamp, cause |-> 0],
          [type |-> "poly_at", channel |-> 0, note |-> 60, value |-> 1,
           timestamp |-> NoTimestamp, cause |-> 0]}

\* arguments the settings pass to the setters
IntervalInputs == {1000, 6000}

NotesInputs ==
    {<<[ok |-> TRUE, val |-> 60]>>,
     <<[ok |-> TRUE, val |-> 60], [ok |-> FALSE, val |-> 0],
       [ok |-> TRUE, val |-> 200], [ok |-> TRUE, val |-> 64], [ok |-> TRUE, val |-> 60]>>}

TypesInputs == {<<TYPE_NOTE>>, <<TYPE_PB, "", TYPE_PB>>}

EnduranceSetEnabled(enabled) ==
    /\ driver = "endurance"
    /\ EnduranceBecomes(Endurance_set_enabled(EnduranceState, enabled, now))
    /\ UNCHANGED <<now, driver, analyzer, generator, timing, processor>>

EnduranceTick ==
    /\ driver = "endurance"
    /\ \E t \in Clock, selected_channel \in SelectedChannels :
         \E events \in EventLists(EnduranceInbound(t)) :
           \E m \in Endurance_tick(EnduranceState, events, selected_channel, t) :
              /\ now' = t
              /\ EnduranceBecomes(m)
    /\ UNCHANGED <<driver, analyzer, generator, timing, processor>>

EnduranceClearResults ==
    /\ driver = "endurance"
    /\ endurance' = clear_results(endurance)
    /\ midi' = [midi EXCEPT !.sent = 0]
    /\ UNCHANGED <<now, driver, analyzer, generator, timing, audit, processor>>

\* gui.py apply_settings(section "latency"): the interval, modulation, notes
\* and types restored at start-up, through the monitor's setters
EnduranceSettings ==
    {[interval_s |-> i, modulation |-> a, probe_notes |-> n, probe_types |-> t]
        : i \in IntervalInputs,
          a \in {<<<<TRUE>>, <<250>>, <<500>>>>, <<<<FALSE>>, <<>>, <<>>>>},
          n \in NotesInputs, t \in TypesInputs}

ApplyEnduranceSettings(mon, cfg) ==
    LET timed == CHOOSE x \in set_interval(mon, cfg.interval_s, Quantum) : TRUE
        modulated == CHOOSE x \in set_modulation(timed, cfg.modulation[1], cfg.modulation[2],
                                                 cfg.modulation[3], Quantum) : TRUE
        m == [mon |-> modulated, out |-> Midi_init, au |-> Audit_init]
    IN  set_probe_types(set_probe_notes(m, cfg.probe_notes), cfg.probe_types).mon

\* gui.py endurance_interval_cb: the interval is changed while the monitor runs
EnduranceSetInterval(seconds) ==
    /\ driver = "endurance"
    /\ endurance' \in set_interval(endurance, seconds, now)
    /\ midi' = [midi EXCEPT !.sent = 0]
    /\ UNCHANGED <<now, driver, analyzer, generator, timing, audit, processor>>

\* gui.py endurance_notes_cb
EnduranceSetProbeNotes(notes) ==
    /\ driver = "endurance"
    /\ EnduranceBecomes(set_probe_notes(EnduranceState, notes))
    /\ UNCHANGED <<now, driver, analyzer, generator, timing, processor>>

\* gui.py endurance_types_cb
EnduranceSetProbeTypes(types) ==
    /\ driver = "endurance"
    /\ EnduranceBecomes(set_probe_types(EnduranceState, types))
    /\ UNCHANGED <<now, driver, analyzer, generator, timing, processor>>

EnduranceNext ==
    \/ \E enabled \in BOOLEAN : EnduranceSetEnabled(enabled)
    \/ EnduranceTick
    \/ EnduranceClearResults

Init ==
    /\ now = Quantum
    /\ driver \in {"fuzz", "endurance"}
    /\ analyzer = FuzzAnalyzer_init
    /\ generator \in IF driver = "fuzz"
                     THEN {ApplyFuzzSettings(FuzzGenerator_init, cfg)
                             : cfg \in
                                 {[mode |-> "single", single_type |-> t, vary_number |-> f[1],
                                   vary_value |-> f[2], randomize_channel |-> f[3]]
                                    : t \in {TYPE_CC} \cup Choice(ALL_TYPES),
                                      f \in {<<FALSE, FALSE, FALSE>>, <<TRUE, FALSE, FALSE>>,
                                             <<FALSE, TRUE, FALSE>>, <<FALSE, FALSE, TRUE>>}}
                                 \cup {[mode |-> m, single_type |-> TYPE_CC,
                                        vary_number |-> TRUE, vary_value |-> TRUE,
                                        randomize_channel |-> FALSE]
                                         : m \in {"mixed", "chaos"}}}
                     ELSE {FuzzGenerator_init}
    /\ timing = TimingModel_init
    /\ endurance \in IF driver = "endurance"
                     THEN {ApplyEnduranceSettings(Endurance_init, cfg)
                             : cfg \in EnduranceSettings}
                     ELSE {Endurance_init}
    /\ midi = Midi_init
    /\ processor = MidiProcessor_init
    /\ audit = Audit_init

Next == FuzzNext \/ EnduranceNext

Spec == Init /\ [][Next]_vars

\* the same with the fuzz generator in single mode at a fixed number, value
\* and channel: every message it sends has the same identity
SingleInit ==
    /\ Init
    /\ driver = "fuzz" =>
          /\ generator.mode = "single"
          /\ ~generator.vary_number
          /\ ~generator.vary_value
          /\ ~generator.randomize_channel

SingleSpec == SingleInit /\ [][Next]_vars

(***************************************************************************)
(* The endurance monitor with its settings changed while it runs           *)
(***************************************************************************)
MonitorInit == Init /\ driver = "endurance"

MonitorNext ==
    \/ EnduranceNext
    \/ \E seconds \in IntervalInputs : EnduranceSetInterval(seconds)
    \/ \E notes \in NotesInputs : EnduranceSetProbeNotes(notes)
    \/ \E types \in TypesInputs : EnduranceSetProbeTypes(types)

MonitorSpec == MonitorInit /\ [][MonitorNext]_vars

\* the endurance monitor alone, with the settings of start-up
EnduranceSpec == MonitorInit /\ [][EnduranceNext]_vars

(***************************************************************************)
(* The endurance monitor with its probe lists changed while it runs        *)
(***************************************************************************)
ListsNext ==
    \/ \E enabled \in BOOLEAN : EnduranceSetEnabled(enabled)
    \/ EnduranceTick
    \/ \E notes \in NotesInputs : EnduranceSetProbeNotes(notes)
    \/ \E types \in TypesInputs : EnduranceSetProbeTypes(types)

ListsSpec == MonitorInit /\ [][ListsNext]_vars

\* the same under continuing ticks: tick is the only step that advances the
\* clock and is possible exactly while a clock value is left, so the clock
\* keeps advancing until the last one
LiveSpec == MonitorInit /\ [][ListsNext]_vars /\ ([]<><<now' > now>>_vars \/ <>[](Clock = {}))

(***************************************************************************)
(* The probe period for every interval and modulation the setters accept   *)
(***************************************************************************)
\* seconds handed to set_interval (in ms): below, inside and above the bounds
PeriodIntervalInputs == {0, 1000, 6000}

\* frequencies (mHz) and depths (ms) handed to set_modulation: a negative one
\* (raised to 0), a frequency whose quarter turns fall on the ticks and one whose
\* sine the ticks sample anywhere, a depth smaller and one larger than the
\* base interval
PeriodInit ==
    /\ now = Quantum
    /\ driver = "endurance"
    /\ analyzer = FuzzAnalyzer_init
    /\ generator = FuzzGenerator_init
    /\ timing = TimingModel_init
    /\ endurance \in {LET timed == CHOOSE x \in set_interval(Endurance_init, seconds,
                                                             Quantum) : TRUE
                       IN  CHOOSE x \in set_modulation(timed, modulation[1], modulation[2],
                                                       modulation[3], Quantum) : TRUE
                        : seconds \in PeriodIntervalInputs,
                          modulation \in {<<<<e>>, <<f>>, <<d>>>>
                                            : e \in BOOLEAN, f \in {0 - 1, 100, 250},
                                              d \in {0 - 1, 500, 2000}}}
    /\ midi = Midi_init
    /\ processor = MidiProcessor_init
    /\ audit = Audit_init

\* a tick that receives nothing
PeriodTick ==
    /\ \E t \in Clock, selected_channel \in SelectedChannels :
         \E m \in Endurance_tick(EnduranceState, <<>>, selected_channel, t) :
            /\ now' = t
            /\ EnduranceBecomes(m)
    /\ UNCHANGED <<driver, analyzer, generator, timing, processor>>

PeriodNext ==
    \/ \E enabled \in BOOLEAN : EnduranceSetEnabled(enabled)
    \/ \E seconds \in PeriodIntervalInputs : EnduranceSetInterval(seconds)
    \/ PeriodTick

PeriodSpec == PeriodInit /\ [][PeriodNext]_vars

(***************************************************************************)
(* _send_probe for every note list and type list the setters can install   *)
(***************************************************************************)
\* gui.py apply_settings(section "latency"): the note list (an empty one
\* leaves the default) and the type list, through the monitor's setters
\* the lists endurance_types_cb and the settings can hand to set_probe_types:
\* type names and empty entries, an entry possibly repeated
ProbeInit ==
    /\ now = Quantum
    /\ driver = "probe"
    /\ analyzer = FuzzAnalyzer_init
    /\ generator = FuzzGenerator_init
    /\ timing = TimingModel_init
    /\ endurance \in {LET m == [mon |-> Endurance_init, out |-> Midi_init,
                                 au |-> Audit_init]
                       IN  set_probe_types(set_probe_notes(m, notes), types).mon
                        : notes \in NotesInputs \cup {<<>>},
                          types \in UNION {[1..n -> SeqToSet(ALL_TYPES) \cup {""}]
                                             : n \in 1..MaxTypes}}
    /\ midi = Midi_init
    /\ processor = MidiProcessor_init
    /\ audit = Audit_init

\* _send_probe as _maybe_send_probe calls it, with no chord outstanding; the
\* histories (wire and audit) start again with the chord that is built
ProbeSend(channel) ==
    /\ endurance.active_probe = NoProbe
    /\ EnduranceBecomes(send_probe([mon |-> endurance, out |-> Midi_init, au |-> Audit_init],
                                   now, channel))
    /\ UNCHANGED <<now, driver, analyzer, generator, timing, processor>>

ProbeNext == \E channel \in {0, 15} : ProbeSend(channel)

ProbeSpec == ProbeInit /\ [][ProbeNext]_vars

(***************************************************************************)
(* Properties                                                              *)
(***************************************************************************)
Sends == 1..Len(audit.ledger)

\* the sends of the current run (registered since the last start) with the
\* given resolution
Resolved(how) == {u \in Sends : ~audit.ledger[u].stale /\ audit.ledger[u].res = how}

\* C1: every message registered with register_sent is resolved at most once
\* and in one way only: it is pending exactly while it is in the pending map,
\* else it was matched (counted once in received_count) or missed (counted
\* once in missed_count) or dropped by stop; no send is resolved twice and
\* none is overwritten while pending.
C1_ResolvedOnce ==
    driver = "fuzz" =>
        /\ \A u \in Sends :
             /\ audit.ledger[u].res \in {"pending", "matched", "missed", "dropped"}
             /\ audit.ledger[u].res = "pending"
                  <=> /\ audit.ledger[u].id \in DOMAIN analyzer.pending
                      /\ analyzer.pending[audit.ledger[u].id].uid = u
             /\ (audit.ledger[u].res = "dropped" /\ ~audit.ledger[u].stale)
                  => ~generator.enabled
        /\ analyzer.received_count = Cardinality(Resolved("matched"))
        /\ analyzer.missed_count = Cardinality(Resolved("missed"))
        /\ analyzer.sent_count = Cardinality({u \in Sends : ~audit.ledger[u].stale})

\* a run in which one send was matched and another one was missed
C1_Witness ==
    /\ driver = "fuzz"
    /\ Resolved("matched") # {}
    /\ Resolved("missed") # {}

\* C2: an inbound response is credited only to the send (fuzz) or the chord
\* (endurance) that caused it.
C2_CreditedToCause == ~audit.miscredit

\* C3: the generator never registers an identity that is pending at the
\* moment of registration, so no pending send is overwritten and the sends
\* pending at the same time have pairwise different identities.
C3_NoPendingCollision ==
    driver = "fuzz" =>
        /\ \A u \in Sends : audit.ledger[u].res # "lost"
        /\ \A u, v \in Sends :
             (/\ u # v
              /\ audit.ledger[u].res = "pending"
              /\ audit.ledger[v].res = "pending")
                => audit.ledger[u].id # audit.ledger[v].id

\* a send was due while the only identity the settings can generate was
\* pending: every attempt collided and the tick sent nothing
C3_Witness ==
    /\ driver = "fuzz"
    /\ generator.enabled
    /\ generator.next_send_time # None
    /\ generator.next_send_time <= now
    /\ Len(audit.ledger) = 1
    /\ audit.ledger[1].res = "pending"
    /\ analyzer.sent_count = 1

\* C4: check_timeouts(now) counts a send as missed only when
\* now >= that send's own send time + timeout.
C4_MissOnlyAfterOwnDeadline == ~audit.premature

\* C5: after check_timeouts(now) no pending entry has send time + timeout
\* <= now.
C5_NoOverduePending ==
    driver = "fuzz" =>
        \A id \in DOMAIN analyzer.pending :
            analyzer.pending[id].send_time + analyzer.timeout_s > now

\* a tick detected a miss and left a younger send pending
C5_Witness ==
    /\ driver = "fuzz"
    /\ Resolved("missed") # {}
    /\ DOMAIN analyzer.pending # {}

(***************************************************************************)
(* stop()                                                                  *)
(***************************************************************************)
\* FuzzTest.set_enabled(False) on a running test: generator.stop(), analyzer.stop()
FuzzStopped(s) == FuzzAnalyzer_stop(FuzzGenerator_stop(s))

FuzzIdle(s) ==
    /\ ~s.gen.enabled
    /\ s.an.pending = EmptyMap
    /\ s.an.deadlines = <<>>
    /\ s.gen.note_off_schedule = <<>>
    /\ s.gen.next_send_time = None

EnduranceIdle(m) ==
    /\ ~m.mon.enabled
    /\ m.mon.active_probe = NoProbe
    /\ m.mon.note_off_schedule = <<>>

\* C6: stop() called in any reachable state leaves no pending entry, no
\* deadline entry, no outstanding chord and no scheduled send; a second stop
\* changes nothing; a tick after stop, whatever it receives, changes nothing
\* and sends nothing; and every state in which the component is disabled is
\* such a state.
C6_StopClearsAll ==
    /\ driver = "fuzz" =>
         LET once == FuzzStopped(FuzzState)
         IN  /\ FuzzIdle(once)
             /\ FuzzStopped(once) = once
             /\ \A t \in Clock :
                  \A events \in EventLists(FuzzInbound(t)) :
                    \A c \in SelectedChannels : FuzzTest_tick(once, events, c, t) = {once}
             /\ ~generator.enabled => FuzzIdle(FuzzState) /\ midi.sent = 0
    /\ driver = "endurance" =>
         LET once == Endurance_stop(EnduranceState)
         IN  /\ EnduranceIdle(once)
             /\ Endurance_stop(once) = once
             /\ \A t \in Clock :
                  \A events \in EventLists(EnduranceInbound(t)) :
                    \A c \in SelectedChannels : Endurance_tick(once, events, c, t) = {once}
             /\ ~endurance.enabled => EnduranceIdle(EnduranceState) /\ midi.sent = 0

\* the fuzz test was stopped while a send was pending
C6_Witness ==
    /\ driver = "fuzz"
    /\ ~generator.enabled
    /\ \E u \in Sends : audit.ledger[u].res = "dropped" /\ ~audit.ledger[u].stale

\* the release the component has scheduled for the notes it sent
NoteOffSchedule ==
    IF driver = "fuzz" THEN generator.note_off_schedule ELSE endurance.note_off_schedule

\* C7: every note that is sounding (its last message on the wire is a
\* note-on) has a note-off scheduled for the same channel and note.
C7_EveryNoteOnReleased ==
    \A cn \in midi.sounding :
        \E i \in 1..Len(NoteOffSchedule) :
            /\ NoteOffSchedule[i][3] = cn[1]
            /\ NoteOffSchedule[i][2] = cn[2]

(***************************************************************************)
(* start(), get_stats(), bounded buffers                                   *)
(***************************************************************************)
FuzzFresh(an) ==
    /\ an.pending = EmptyMap
    /\ an.deadlines = <<>>
    /\ an.sent_count = 0
    /\ an.received_count = 0
    /\ an.missed_count = 0
    /\ an.stats.count = 0
    /\ an.results_x = <<>>
    /\ an.results_y = <<>>
    /\ an.missing_log = <<>>

\* C8: FuzzAnalyzer.start(), called in any reachable state, leaves the pending
\* map and the deadline queue empty, the counters at zero, the statistics
\* without samples and the series and the miss log empty; and a send
\* registered before the last start is never in the pending map, the only
\* place from which a send is matched or counted as missed.
C8_StartClears ==
    driver = "fuzz" =>
        /\ FuzzFresh(FuzzAnalyzer_start(FuzzState, now).an)
        /\ (generator.enabled /\ Resolved("pending") = {} /\ Resolved("matched") = {}
              /\ Resolved("missed") = {})
             => FuzzFresh(analyzer)
        /\ \A u \in Sends : audit.ledger[u].stale => audit.ledger[u].res # "pending"
        /\ \A id \in DOMAIN analyzer.pending : ~audit.ledger[analyzer.pending[id].uid].stale

\* the test was started again after a run in which a response was matched
C8_Witness ==
    /\ driver = "fuzz"
    /\ generator.enabled
    /\ analyzer.sent_count = 0
    /\ \E u \in Sends : audit.ledger[u].stale /\ audit.ledger[u].res = "matched"

\* C9: get_stats() reports mean, stddev, min, max and last as None exactly
\* in the states where no response has been matched since the last start,
\* and the statistics hold as many samples as received_count.
C9_StatsNoneUntilMatch ==
    driver = "fuzz" =>
        LET stats == get_stats(analyzer)
            unmatched == Resolved("matched") = {}
        IN  /\ (stats.mean = <<None>>) <=> unmatched
            /\ (stats.stddev = <<None>>) <=> unmatched
            /\ (stats.min = None) <=> unmatched
            /\ (stats.max = None) <=> unmatched
            /\ (stats.last = None) <=> unmatched
            /\ analyzer.stats.count = analyzer.received_count
            /\ stats.received = analyzer.stats.count

\* two responses were matched in one run
C9_Witness ==
    /\ driver = "fuzz"
    /\ analyzer.received_count = 2
    /\ get_stats(analyzer).last # None

Bounded(xs, ys, cap) == Len(xs) = Len(ys) /\ Len(xs) <= cap

\* appending to a full buffer evicts exactly its oldest entry
Fifo(buf, cap) ==
    Len(buf) = cap => DequeAppend(buf, 0, cap) = Append(Tail(buf), 0)

Phase(mon) ==
    IF ~mon.enabled THEN (IF mon.active_probe = NoProbe THEN "Idle" ELSE "Orphan")
    ELSE IF mon.active_probe = NoProbe THEN "Armed" ELSE "Probing"

\* the outstanding chord of the state before the step is not the outstanding
\* chord after it
ChordLeft ==
    /\ endurance.active_probe # NoProbe
    /\ endurance'.active_probe.serial # endurance.active_probe.serial

\* the step sent a chord
ChordSent ==
    /\ endurance'.active_probe # NoProbe
    /\ endurance'.active_probe.serial # endurance.active_probe.serial

\* the step installed another note list or type list
Reconfigured ==
    \/ endurance'.probe_notes # endurance.probe_notes
    \/ endurance'.probe_types # endurance.probe_types

\* what every step of the prober does to its state, with the ways `left` in
\* which an outstanding chord may stop being outstanding while the prober
\* stays enabled
PhaseStep(left) ==
    LET p == Phase(endurance)
        q == Phase(endurance')
    IN  /\ q \in {"Idle", "Armed", "Probing"}
        /\ (p = "Idle" /\ q # "Idle")
             => /\ q = "Armed"
                /\ endurance' = Endurance_start(EnduranceState, now).mon
        /\ (p # "Idle" /\ q = "Idle") => endurance' = Endurance_stop(EnduranceState).mon
        /\ ChordSent
             => /\ p \in {"Armed", "Probing"}
                /\ endurance'.active_probe.serial = Len(audit'.ledger)
                /\ audit'.ledger[Len(audit'.ledger)].res = "pending"
                /\ endurance'.active_probe.send_time = now'
        /\ (ChordLeft /\ q # "Idle")
             => audit'.ledger[endurance.active_probe.serial].res \in left
        /\ (endurance.active_probe # NoProbe /\ ~ChordLeft)
             => audit'.ledger[endurance.active_probe.serial].res = "pending"
        /\ Phase(Endurance_stop(EnduranceState).mon) = "Idle"

ChordFinalized ==
    /\ endurance.active_probe # NoProbe
    /\ audit'.ledger[endurance.active_probe.serial].res \in {"complete", "missed"}

\* the series and the last result are what they were before the step
HistoryUnchanged ==
    /\ endurance'.results_x = endurance.results_x
    /\ endurance'.results_y = endurance.results_y
    /\ endurance'.offsets_x = endurance.offsets_x
    /\ endurance'.offsets_y = endurance.offsets_y
    /\ endurance'.last_result = endurance.last_result

\* C12: a chord that is finalized with no response or with a response to
\* only some of its labels is finalized as missed: missed_probes grows by
\* exactly 1, nothing is appended to the dispersion series or to an offset
\* series and last_result is unchanged; and missed_probes grows in no other
\* step.
C12_MissCountsOnce ==
    [][LET c == endurance.active_probe.serial
           short == /\ ChordFinalized
                    /\ audit'.ledger[c].got < Cardinality(audit'.ledger[c].ids)
       IN  /\ short => /\ audit'.ledger[c].res = "missed"
                       /\ endurance'.missed_probes = endurance.missed_probes + 1
                       /\ HistoryUnchanged
           /\ endurance'.missed_probes > endurance.missed_probes => short]_vars

\* a chord of two notes was counted as missed after one of them was echoed
C12_Witness ==
    /\ driver = "endurance"
    /\ endurance.missed_probes > 0
    /\ \E c \in 1..Len(audit.ledger) :
         /\ audit.ledger[c].res = "missed"
         /\ audit.ledger[c].got > 0
         /\ audit.ledger[c].got < Cardinality(audit.ledger[c].ids)

C14_OneIdentityPerLabel ==
    [][ChordSent =>
         LET expected == endurance'.active_probe.expected
             ids == DOMAIN expected
             types == SeqToSet(endurance.probe_types)
             labels == build_offset_labels(endurance.probe_types, endurance.probe_notes)
         IN  /\ Cardinality(ids) = Len(labels)
             /\ {expected[id] : id \in ids} = SeqToSet(labels)
             /\ Cardinality(SeqToSet(labels)) = Len(labels)
             /\ \A id \in ids : expected[id] = label_for_spec(SpecOfId(id))
             /\ Cardinality({id \in ids : id[1] = TYPE_NOTE})
                  = IF TYPE_NOTE \in types THEN Len(endurance.probe_notes) ELSE 0
             /\ \A t \in types \ {TYPE_NOTE} : Cardinality({id \in ids : id[1] = t}) = 1
             /\ \A id \in ids : id[1] \in types
             /\ midi'.sent = Cardinality(ids)]_vars

\* a chord of two notes and a pitch bend was sent
C14_Witness ==
    /\ driver = "probe"
    /\ endurance.probe_types = <<TYPE_PB, TYPE_NOTE>>
    /\ endurance.probe_notes = <<60, 64>>
    /\ Cardinality(DOMAIN endurance.active_probe.expected) = 3
    /\ midi.sent = 3

(***************************************************************************)
(* The probe period                                                        *)
(***************************************************************************)
\* C15: with modulation disabled a chord is counted as missed only by its
\* own deadline: no step finalizes an outstanding chord as missed at a time
\* before that chord's deadline, which is what the overlap branch of
\* _maybe_send_probe does.
C15_NoOverlap ==
    [][LET probe == endurance.active_probe
       IN  (/\ ~endurance.mod_enabled
            /\ ChordFinalized
            /\ audit'.ledger[probe.serial].res = "missed")
             => now' >= probe.deadline]_vars

\* the modulation is in effect (_current_interval does not return the base)
Modulated(mon) == mon.mod_enabled /\ mon.mod_freq_hz > 0 /\ mon.mod_depth_s > 0

\* C16: at each chord send the period to the next probe, next_probe_time -
\* now, lies in [min_interval_s, max_interval_s] = [1 ms, 5 s]; without
\* modulation it is the base interval.
C16_PeriodInBounds ==
    [][ChordSent =>
         LET period == endurance'.next_probe_time - now'
         IN  /\ endurance'.min_interval_s = 1
             /\ endurance'.max_interval_s = 5000
             /\ period >= endurance'.min_interval_s
             /\ period <= endurance'.max_interval_s
             /\ ~Modulated(endurance') => period = endurance'.interval_s]_vars

\* a chord was sent with the modulated period cut at the lower bound
C16_Witness ==
    /\ driver = "endurance"
    /\ endurance.active_probe # NoProbe
    /\ endurance.active_probe.send_time = now
    /\ Modulated(endurance)
    /\ endurance.next_probe_time - now = endurance.min_interval_s
    /\ endurance.interval_s > endurance.min_interval_s

(***************************************************************************)
(* The timing model under every setting: set_preset, set_full and          *)
(* next_delay_s in any order.  The ledger holds the last delay returned    *)
(* under the current setting and the burst counter the call found.         *)
(***************************************************************************)
\* arguments handed to set_full: at 5 messages per second and gaps of 150
\* to 250 ms, fractions below, inside and above [0, 1]; at a base rate below
\* the floor, burst sizes and gaps (ms) that are equal, negative or inverted
TimingInit ==
    /\ now = Quantum
    /\ driver = "timing"
    /\ analyzer = FuzzAnalyzer_init
    /\ generator = FuzzGenerator_init
    /\ timing = TimingModel_new
    /\ endurance = Endurance_init
    /\ midi = Midi_init
    /\ processor = MidiProcessor_init
    /\ audit = Audit_init

TimingSetPreset(name, intensity) ==
    /\ timing' = set_preset(timing, name, intensity)
    /\ audit' = Audit_init
    /\ UNCHANGED <<now, driver, analyzer, generator, endurance, midi, processor>>

TimingSetFull(args) ==
    /\ timing' = set_full(timing, args[1], args[2], args[3], args[4], args[5], args[6],
                          args[7])
    /\ audit' = Audit_init
    /\ UNCHANGED <<now, driver, analyzer, generator, endurance, midi, processor>>

TimingNextDelay ==
    /\ \E r \in TimingModel_next_delay_s(timing) :
          /\ timing' = r[2]
          /\ audit' = [Audit_init EXCEPT
                          !.ledger = <<[delay |-> r[1],
                                        burst_before |-> timing.burst_remaining]>>]
    /\ UNCHANGED <<now, driver, analyzer, generator, endurance, midi, processor>>

TimingNext ==
    \/ \E name \in {"Steady", "Jitter", "Burst", "Chaos"},
          intensity \in {RInt(0 - 1), RInt(0), <<1, 2>>, RInt(2)} :
          TimingSetPreset(name, intensity)
    \/ \E args \in {<<RInt(5), jitter_pct, burst_prob, 2, 3, RInt(150), RInt(250)>>
                      : jitter_pct \in {RInt(0 - 1), <<1, 2>>, RInt(2)},
                        burst_prob \in {RInt(0 - 1), <<1, 2>>, RInt(2)}}
                  \cup {<<RInt(0), <<1, 2>>, <<1, 2>>, sizes[1], sizes[2], gaps[1], gaps[2]>>
                          : sizes \in {<<0, 0>>, <<3, 1>>},
                            gaps \in {<<RInt(0 - 5), RInt(0)>>, <<RInt(0), RInt(1000)>>,
                                      <<RInt(500), RInt(50)>>}} :
          TimingSetFull(args)
    \/ TimingNextDelay

TimingSpec == TimingInit /\ [][TimingNext]_vars

\* the calls of next_delay_s on record
Delays == IF driver = "timing" THEN DOMAIN audit.ledger ELSE {}

\* C18: next_delay_s never returns a negative delay; in full mode every
\* delay returned, inside a burst or not, lies in [min_gap, max_gap],
\* whatever was handed to set_full.
C18_DelayInRange ==
    \A i \in Delays :
        LET delay == audit.ledger[i].delay
        IN  /\ ~RLess(delay, RInt(0))
            /\ timing.mode = "full" =>
                  /\ ~RLess(delay, MsToS(timing.min_gap_ms))
                  /\ ~RLess(MsToS(timing.max_gap_ms), delay)

\* a delay was returned in full mode after set_full was handed a max_gap
\* below the min_gap, outside a burst, and it is the min_gap
C18_Witness ==
    /\ driver = "timing"
    /\ timing.mode = "full"
    /\ timing.min_gap_ms = RInt(500)
    /\ timing.max_gap_ms = RInt(500)
    /\ timing.burst_remaining = 0
    /\ \E i \in Delays :
          /\ audit.ledger[i].burst_before = 0
          /\ audit.ledger[i].delay = <<1, 2>>

\* C19: in the Steady preset with no burst in progress next_delay_s starts
\* no burst and returns exactly 1 / (5 + 45 * intensity) seconds, 0.2 s at
\* intensity 0, and the burst counter stays 0.
C19_SteadyExact ==
    \A i \in Delays :
        (/\ timing.mode = "preset"
         /\ timing.preset = "Steady"
         /\ audit.ledger[i].burst_before = 0)
          => /\ RMul(audit.ledger[i].delay,
                     RAdd(RInt(5), RMul(RInt(45), timing.intensity))) = RInt(1)
             /\ timing.intensity = RInt(0) => audit.ledger[i].delay = <<1, 5>>
             /\ timing.burst_remaining = 0

\* next_delay_s returned 0.2 s in the Steady preset at intensity 0 with no
\* burst in progress
C19_Witness ==
    /\ driver = "timing"
    /\ timing.mode = "preset"
    /\ timing.preset = "Steady"
    /\ timing.intensity = RInt(0)
    /\ timing.burst_remaining = 0
    /\ \E i \in Delays :
          /\ audit.ledger[i].burst_before = 0
          /\ audit.ledger[i].delay = <<1, 5>>

(***************************************************************************)
(* build_spec for in-range and out-of-range arguments, next to the runs of *)
(* the generator and the prober.  Under the driver "build" a behaviour     *)
(* makes one call; the ledger holds its arguments and the spec returned.   *)
(***************************************************************************)
\* numbers and values handed to build_spec: the bounds of TYPE_RANGES and
\* their neighbours
BuildInit ==
    /\ now = Quantum
    /\ driver = "build"
    /\ analyzer = FuzzAnalyzer_init
    /\ generator = FuzzGenerator_init
    /\ timing = TimingModel_init
    /\ endurance = Endurance_init
    /\ midi = Midi_init
    /\ processor = MidiProcessor_init
    /\ audit = Audit_init

BuildCall(mtype, channel, number, value) ==
    /\ driver = "build"
    /\ audit.ledger = <<>>
    /\ audit' = [Audit_init EXCEPT
                    !.ledger = <<[mtype |-> mtype, channel |-> channel,
                                  number |-> number, value |-> value,
                                  spec |-> build_spec(mtype, channel, number, value)]>>]
    /\ UNCHANGED <<now, driver, analyzer, generator, timing, endurance, midi, processor>>

SendInit == Init \/ BuildInit

SendNext ==
    \/ Next
    \/ \E mtype \in SeqToSet(ALL_TYPES), channel \in {0, 15},
          number \in {0 - 1, 0, 1, 31, 32, 127, 128, 16383, 16384},
          value \in {0 - 1, 0, 1, 31, 32, 127, 128, 16383, 16384} :
          BuildCall(mtype, channel, number, value)

SendSpec == SendInit /\ [][SendNext]_vars

\* the bound of [lo, hi] nearest to val, val itself when it is inside
Nearest(val, lo, hi) == IF val < lo THEN lo ELSE IF val > hi THEN hi ELSE val

InRange(mtype, number, value) ==
    /\ number \in TYPE_RANGES[mtype].number[1]..TYPE_RANGES[mtype].number[2]
    /\ value \in TYPE_RANGES[mtype].value[1]..TYPE_RANGES[mtype].value[2]

\* C20: build_spec returns a spec of the type and channel given whose
\* number and value are the arguments when they are inside the type's range
\* and the nearest range bound when they are not; every message the
\* generator registers and every message of a chord of the prober has its
\* number and value inside the range of its type.
C20_BuildSpecClamps ==
    /\ driver = "build" =>
         \A i \in DOMAIN audit.ledger :
            LET c == audit.ledger[i]
                ranges == TYPE_RANGES[c.mtype]
            IN  /\ c.spec.mtype = c.mtype
                /\ c.spec.channel = c.channel
                /\ c.spec.number = Nearest(c.number, ranges.number[1], ranges.number[2])
                /\ c.spec.value = Nearest(c.value, ranges.value[1], ranges.value[2])
                /\ InRange(c.mtype, c.spec.number, c.spec.value)
    /\ driver = "fuzz" =>
         \A u \in DOMAIN audit.ledger :
            InRange(audit.ledger[u].id[1], audit.ledger[u].id[3], audit.ledger[u].id[4])
    /\ driver = "endurance" =>
         \A u \in DOMAIN audit.ledger :
            \A id \in audit.ledger[u].ids : InRange(id[1], id[3], id[4])

\* build_spec was handed a number above and a value below the range of a
\* note and returned the bounds
C20_Witness ==
    /\ driver = "build"
    /\ \E i \in DOMAIN audit.ledger :
          LET c == audit.ledger[i]
          IN  /\ c.mtype = TYPE_NOTE
              /\ c.number = 128
              /\ c.value = 0
              /\ c.spec.number = 127
              /\ c.spec.value = 1

(***************************************************************************)
(* The generator's tick                                                    *)
(***************************************************************************)
\* every candidate _generate_spec can draw is pending while a send is due at t
AllCollide(t, selected_channel) ==
    /\ generator.enabled
    /\ generator.next_send_time # None
    /\ t >= generator.next_send_time
    /\ \A c \in generate_spec(generator, selected_channel) :
          identity(c) \in DOMAIN analyzer.pending

\* C17: FuzzGenerator.tick ends, having sent and registered at most
\* max_send_per_tick messages; when every candidate of the first send due
\* collides with a pending identity it sends nothing, registers nothing and
\* leaves next_send_time and the timing model as they were.
C17_TickBounded ==
    driver = "fuzz" =>
        \A t \in Clock, selected_channel \in SelectedChannels :
            \A s \in FuzzGenerator_tick(FuzzState, t, selected_channel) :
                LET sends == s.gen.sent_count - generator.sent_count
                IN  /\ sends \in 0..generator.max_send_per_tick
                    /\ Len(s.au.ledger) - Len(audit.ledger) = sends
                    /\ s.an.sent_count - analyzer.sent_count = sends
                    /\ AllCollide(t, selected_channel) =>
                          /\ sends = 0
                          /\ s.an = analyzer
                          /\ s.gen.next_send_time = generator.next_send_time
                          /\ s.tm = timing

\* a tick is about to run with a send due and every candidate pending
C17_Witness ==
    /\ driver = "fuzz"
    /\ \E t \in Clock, selected_channel \in SelectedChannels :
          /\ AllCollide(t, selected_channel)
          /\ FuzzGenerator_tick(FuzzState, t, selected_channel) # {}

(***************************************************************************)
(* The probe lists after the setters                                       *)
(***************************************************************************)
\* a list without repeated entries
DuplicateFree(list) == \A i, j \in 1..Len(list) : list[i] = list[j] => i = j

\* the position of the first entry of the notes argument that converts to val
FirstAt(notes, val) ==
    CHOOSE i \in 1..Len(notes) :
        /\ notes[i].ok /\ notes[i].val = val
        /\ \A j \in 1..(i - 1) : ~(notes[j].ok /\ notes[j].val = val)

\* the valid notes of the argument
ValidNotes(notes) == {notes[i].val : i \in {k \in 1..Len(notes) : notes[k].ok}} \cap 0..127

\* C21: probe_notes is a non-empty duplicate-free list of integers in
\* 0..127 and probe_types a non-empty duplicate-free list; set_probe_notes
\* installs the valid notes of its argument once each in the order of their
\* first occurrence, set_probe_types the non-empty entries likewise, and an
\* argument with no valid entry leaves the monitor, the outstanding chord
\* and the results as they were.
C21_ListsSanitized ==
    driver = "endurance" =>
        /\ endurance.probe_notes # <<>>
        /\ DuplicateFree(endurance.probe_notes)
        /\ SeqToSet(endurance.probe_notes) \subseteq 0..127
        /\ endurance.probe_types # <<>>
        /\ DuplicateFree(endurance.probe_types)
        /\ \A notes \in NotesInputs \cup
                        {<<>>,
                         <<[ok |-> TRUE, val |-> 128], [ok |-> FALSE, val |-> 0],
                           [ok |-> TRUE, val |-> 0 - 1]>>,
                         <<[ok |-> TRUE, val |-> 127], [ok |-> TRUE, val |-> 0],
                           [ok |-> TRUE, val |-> 127]>>} :
              LET r == set_probe_notes(EnduranceState, notes)
                  clean == r.mon.probe_notes
              IN  IF ValidNotes(notes) = {}
                  THEN r = EnduranceState
                  ELSE /\ SeqToSet(clean) = ValidNotes(notes)
                       /\ DuplicateFree(clean)
                       /\ \A i, j \in 1..Len(clean) :
                             i < j => FirstAt(notes, clean[i]) < FirstAt(notes, clean[j])
        /\ \A types \in TypesInputs \cup
                        {<<>>, <<"", "">>, <<TYPE_CC, "", TYPE_NOTE, TYPE_CC>>} :
              LET r == set_probe_types(EnduranceState, types)
                  clean == r.mon.probe_types
              IN  IF SeqToSet(types) \subseteq {""}
                  THEN r = EnduranceState
                  ELSE /\ SeqToSet(clean) = SeqToSet(types) \ {""}
                       /\ DuplicateFree(clean)

\* a chord is outstanding and a result is on record under a note list that
\* set_probe_notes cleaned from an argument with a non-numeric entry, a note
\* out of range and a repeated note
C21_Witness ==
    /\ driver = "endurance"
    /\ endurance.probe_notes = <<60, 64>>
    /\ endurance.active_probe # NoProbe
    /\ endurance.results_x # <<>>

(***************************************************************************)
(* What tick returns                                                       *)
(***************************************************************************)
\* the events of the list that answer the message id of the outstanding chord
Answers(events, id) ==
    {i \in 1..Len(events) :
        /\ event_to_spec(events[i]) # NoSpec
        /\ identity(event_to_spec(events[i])) = id}

\* the list brings every label the outstanding chord still waits for
LastLabelObserved(events) ==
    /\ endurance.active_probe # NoProbe
    /\ \A id \in DOMAIN endurance.active_probe.expected :
          \/ endurance.active_probe.expected[id] \in DOMAIN endurance.active_probe.received
          \/ Answers(events, id) # {}

\* when each message of the outstanding chord was first received: before
\* this tick, or with the first event of the list at time t that answers it
ReceiveTimes(events, t) ==
    LET probe == endurance.active_probe
    IN  {IF probe.expected[id] \in DOMAIN probe.received
         THEN probe.received[probe.expected[id]]
         ELSE EventTime(events[CHOOSE i \in Answers(events, id) :
                                  \A j \in Answers(events, id) : i <= j], t)
           : id \in DOMAIN probe.expected}

C23_StartThenOneChord ==
    driver = "endurance" =>
        LET started == Endurance_start(EnduranceState, now)
        IN  /\ started.mon.enabled
            /\ started.mon.probes_sent = 0
            /\ started.mon.missed_probes = 0
            /\ started.mon.last_result = NoResult
            /\ started.mon.results_x = <<>>
            /\ started.mon.results_y = <<>>
            /\ \A l \in DOMAIN started.mon.offsets_x : started.mon.offsets_x[l] = <<>>
            /\ \A l \in DOMAIN started.mon.offsets_y : started.mon.offsets_y[l] = <<>>
            /\ started.mon.active_probe = NoProbe
            /\ \A u \in DOMAIN started.au.ledger : started.au.ledger[u].res # "pending"
            /\ \A t \in Clock, selected_channel \in SelectedChannels :
                  \A events \in EventLists(EnduranceInbound(t)) :
                     \A m \in Endurance_tick(started, events, selected_channel, t) :
                        /\ m.mon.probes_sent = 1
                        /\ m.mon.missed_probes = 0
                        /\ m.mon.active_probe # NoProbe
                        /\ m.mon.active_probe.send_time = t
                        /\ Len(m.au.ledger) = Len(audit.ledger) + 1
                        /\ m.out.sent = Cardinality(DOMAIN m.mon.active_probe.expected)

\* the monitor runs with a chord outstanding and a result on record, and the
\* clock can still advance: start() finds counters, series and a chord to clear
C23_Witness ==
    /\ driver = "endurance"
    /\ endurance.enabled
    /\ endurance.active_probe # NoProbe
    /\ endurance.last_result # NoResult
    /\ endurance.probes_sent > 1
    /\ Clock # {}

(***************************************************************************)
(* Deadline entries of sends that are already resolved                     *)
(***************************************************************************)
\* the first deadline entry is due at t and the send that pushed it (at its
\* deadline minus the timeout) is no longer the pending one of its identity
StaleEntryDue(t) ==
    /\ analyzer.deadlines # <<>>
    /\ Head(analyzer.deadlines)[1] <= t
    /\ LET id == Head(analyzer.deadlines)[2]
       IN  \/ id \notin DOMAIN analyzer.pending
           \/ analyzer.pending[id].send_time + analyzer.timeout_s
                # Head(analyzer.deadlines)[1]

\* C25: when check_timeouts pops a deadline entry whose send is already
\* resolved, the pop changes nothing but the queue: check_timeouts ends in
\* the state it would end in had the entry not been in the queue.
C25_StalePopNoEffect ==
    driver = "fuzz" =>
        \A t \in Clock :
            StaleEntryDue(t) =>
                check_timeouts(FuzzState, t)
                  = check_timeouts([FuzzState EXCEPT !.an.deadlines = Tail(@)], t)

(***************************************************************************)
(* A probe cycle that falls due while a chord is outstanding               *)
(***************************************************************************)
\* at time t the next cycle is due and the outstanding chord has not reached
\* its deadline
OverlapDue(t) ==
    /\ endurance.enabled
    /\ endurance.active_probe # NoProbe
    /\ endurance.next_probe_time # None
    /\ endurance.next_probe_time <= t
    /\ t < endurance.active_probe.deadline

\* C26: at most one chord is outstanding, the one the ledger has pending;
\* a tick at which a cycle is due while a chord is outstanding (and which
\* receives nothing) counts that chord as missed, writes no history and
\* leaves the new chord, sent at the tick's time, as the outstanding one.
C26_OverlapMissesFirst ==
    driver = "endurance" =>
        /\ \A u \in DOMAIN audit.ledger :
              audit.ledger[u].res = "pending" => endurance.active_probe.serial = u
        /\ \A t \in Clock, selected_channel \in SelectedChannels :
              OverlapDue(t) =>
                 \A m \in Endurance_tick(EnduranceState, <<>>, selected_channel, t) :
                    /\ m.au.ledger[endurance.active_probe.serial].res = "missed"
                    /\ m.mon.missed_probes = endurance.missed_probes + 1
                    /\ m.mon.results_x = endurance.results_x
                    /\ m.mon.results_y = endurance.results_y
                    /\ m.mon.offsets_x = endurance.offsets_x
                    /\ m.mon.offsets_y = endurance.offsets_y
                    /\ m.mon.last_result = endurance.last_result
                    /\ m.mon.active_probe # NoProbe
                    /\ m.mon.active_probe.serial = Len(audit.ledger) + 1
                    /\ m.mon.active_probe.send_time = t
                    /\ m.mon.probes_sent = endurance.probes_sent + 1
                    /\ \A u \in DOMAIN m.au.ledger :
                          m.au.ledger[u].res = "pending" => u = Len(audit.ledger) + 1

\* a chord is outstanding and the next cycle falls due before its deadline
C26_Witness ==
    /\ driver = "endurance"
    /\ \E t \in Clock : OverlapDue(t)

(***************************************************************************)
(* The deadline ends the chord                                             *)
(***************************************************************************)
\* every tick at or past the deadline of the outstanding chord finalizes it:
\* as complete when the tick's events bring every label still missing, as
\* missed otherwise
DeadlineEndsChord ==
    driver = "endurance" =>
        \A t \in Clock, selected_channel \in SelectedChannels :
            (/\ endurance.enabled
             /\ endurance.active_probe # NoProbe
             /\ t >= endurance.active_probe.deadline)
              => \A events \in EventLists(EnduranceInbound(t)) :
                    \A m \in Endurance_tick(EnduranceState, events, selected_channel, t) :
                       /\ m.mon.active_probe.serial # endurance.active_probe.serial
                       /\ m.au.ledger[endurance.active_probe.serial].res
                            = IF LastLabelObserved(events) THEN "complete" ELSE "missed"

\* chord c is the outstanding one
Outstanding(c) == driver = "endurance" /\ endurance.active_probe.serial = c

\* chord c has ended in one of the ways given
Ended(c, ways) ==
    /\ driver = "endurance"
    /\ c \in DOMAIN audit.ledger
    /\ audit.ledger[c].res \in ways

TickArmed(t) ==
    LET flushed == FuzzGenerator_flush_note_offs(FuzzState, t)
    IN  IF flushed.gen.next_send_time = None
        THEN [flushed EXCEPT !.gen.next_send_time = t]
        ELSE flushed

\* C28: after a successful send in FuzzGenerator.tick, next_send_time is its
\* previous value plus the delay the timing model returned, so that sends
\* which fell due during a long gap between ticks are caught up in later
\* iterations, up to the per-tick cap.
C28_NextSendAdvances ==
    driver = "fuzz" =>
        \A t \in Clock, selected_channel \in SelectedChannels :
            LET s == TickArmed(t)
            IN  (/\ s.gen.enabled
                 /\ t >= s.gen.next_send_time
                 /\ s.gen.max_send_per_tick > 0
                 /\ Len(s.au.ledger) < MaxSends)
                  => \A spec \in generate_unique_spec(s.gen, selected_channel, s.an.pending) \ {NoSpec} :
                        \A delay \in next_delay_s(s.tm) :
                            TickSend(s, spec, t, delay).gen.next_send_time
                                = s.gen.next_send_time + delay[1]

(***************************************************************************)
(* The length of a burst                                                   *)
(***************************************************************************)
\* the burst parameters next_delay_s reads in the mode the model is in
BurstRow(tm) ==
    LET row == IF tm.mode = "full" THEN tm ELSE PresetRow(tm.preset, tm.intensity)
    IN  [sizes |-> row.burst_size_min..row.burst_size_max,
         burst_prob |-> row.burst_prob,
         gap |-> RMax(MsToS(row.min_gap_ms), RInt(0))]

\* the outcomes of n calls of next_delay_s in a row: <<timing, delays>>
RECURSIVE AfterCalls(_, _)
AfterCalls(tm, n) ==
    IF n = 0 THEN {<<tm, <<>>>>}
    ELSE UNION {{<<q[1], <<r[1]>> \o q[2]>> : q \in AfterCalls(r[2], n - 1)}
                : r \in TimingModel_next_delay_s(tm)}

Scheduled(schedule, cn) ==
    {i \in 1..Len(schedule) : schedule[i][3] = cn[1] /\ schedule[i][2] = cn[2]}

ComponentEnabled == IF driver = "fuzz" THEN generator.enabled ELSE endurance.enabled

\* the flush at time t sends the note-offs that are due, each once, and
\* leaves the others where they are
FlushExact(t) ==
    LET NotDue(e) == e[1] > t
        r == FlushNoteOffs(NoteOffSchedule, [midi EXCEPT !.sent = 0], t)
    IN  /\ r.schedule = SelectSeq(NoteOffSchedule, NotDue)
        /\ r.out.sent = Len(NoteOffSchedule) - Len(r.schedule)
        /\ \A i \in 1..Len(NoteOffSchedule) :
              ~NotDue(NoteOffSchedule[i])
                 => <<NoteOffSchedule[i][3], NoteOffSchedule[i][2]>> \notin r.out.sounding

\* C30: a NOTE sent with a note length > 0 has its note-off scheduled; while
\* the component stays enabled the note-off stays scheduled until the first
\* tick at or past its release time, which sends it, once: a step that leaves
\* the component enabled leaves every note that is sounding and was scheduled
\* for release either scheduled still or released, schedules every note it
\* sends, releases no note before its time, and leaves no note-off behind
\* that is due.
C30_NoteOffWhileEnabled ==
    [][(driver \in {"fuzz", "endurance"} /\ ComponentEnabled /\ ComponentEnabled') =>
          /\ \A t \in Clock : FlushExact(t)
          /\ \A cn \in midi'.sounding :
                (cn \notin midi.sounding \/ Scheduled(NoteOffSchedule, cn) # {})
                   => Scheduled(NoteOffSchedule', cn) # {}
          /\ \A cn \in midi.sounding :
                (\A i \in Scheduled(NoteOffSchedule, cn) : NoteOffSchedule[i][1] > now')
                   => cn \in midi'.sounding
          /\ \A i \in 1..Len(NoteOffSchedule') :
                (NoteOffSchedule'[i][1] <= now') => (now' = now /\ NoteOffSchedule' = NoteOffSchedule)
      ]_vars

(***************************************************************************)
(* What _process_events records for the outstanding chord                  *)
(***************************************************************************)
\* the labels of the outstanding chord that the list answers for the first
\* time
FreshLabels(events) ==
    LET probe == endurance.active_probe
    IN  {probe.expected[id] : id \in {x \in DOMAIN probe.expected :
                                        /\ probe.expected[x] \notin DOMAIN probe.received
                                        /\ Answers(events, x) # {}}}

\* the time of the first event of the list that answers the lab
FirstAnswerTime(events, lab, t) ==
    LET probe == endurance.active_probe
        hits == UNION {Answers(events, id) : id \in {x \in DOMAIN probe.expected :
                                                      probe.expected[x] = lab}}
    IN  EventTime(events[CHOOSE i \in hits : \A j \in hits : i <= j], t)

\* C31: while a chord is outstanding _process_events records an event only
\* if its identity is expected and its lab has no timestamp yet: a list
\* that answers no new lab changes nothing, a lab keeps the timestamp of
\* its first matching event, and the chord is finalized as complete exactly
\* when the received labels are as many as the expected ones.
C31_FirstResponseKept ==
    (driver = "endurance" /\ endurance.active_probe # NoProbe) =>
        \A t \in Clock :
            \A events \in UNION {[1..n -> EnduranceInbound(t)] : n \in 0..(MaxEvents + 1)} :
                LET probe == endurance.active_probe
                    r == Endurance_process_events(EnduranceState, events, t)
                    fresh == FreshLabels(events)
                    all == DOMAIN probe.received \cup fresh
                IN  /\ fresh = {} => r.mon = endurance
                    /\ IF Cardinality(all) = Cardinality(DOMAIN probe.expected) /\ fresh # {}
                       THEN /\ r.mon.active_probe = NoProbe
                            /\ r.au.ledger[probe.serial].res = "complete"
                            /\ r.au.ledger[probe.serial].got = Cardinality(all)
                       ELSE /\ r.mon.active_probe # NoProbe
                            /\ r.au.ledger[probe.serial].res = "pending"
                            /\ r.mon = [endurance EXCEPT !.active_probe.received =
                                           r.mon.active_probe.received]
                            /\ DOMAIN r.mon.active_probe.received = all
                            /\ \A l \in DOMAIN probe.received :
                                  r.mon.active_probe.received[l] = probe.received[l]
                            /\ \A l \in fresh :
                                  r.mon.active_probe.received[l] = FirstAnswerTime(events, l, t)

\* a chord of two messages has one of them received, and a later tick can
\* bring a second response for it, at a later time
C31_Witness ==
    /\ driver = "endurance"
    /\ endurance.active_probe # NoProbe
    /\ Cardinality(DOMAIN endurance.active_probe.expected) = 2
    /\ \E id \in DOMAIN endurance.active_probe.expected :
          LET lab == endurance.active_probe.expected[id]
          IN  /\ lab \in DOMAIN endurance.active_probe.received
              /\ \E t \in Clock : \E e \in EnduranceInbound(t) :
                    /\ event_to_spec(e) # NoSpec
                    /\ identity(event_to_spec(e)) = id
                    /\ EventTime(e, t) > endurance.active_probe.received[lab]

(***************************************************************************)
(* Events that answer nothing                                              *)
(***************************************************************************)
\* events with no synthetic counterpart, made to look like the echo of each
\* of the identities: a note event with velocity 0 and one with a negative
\* velocity for every note among them, and an aftertouch, a polyphonic
\* aftertouch and a system-exclusive event with the fields of every one
ForeignEvents(ids, t) ==
    {[EchoEvent(SpecOfId(id), ts, 0) EXCEPT !.velocity = v]
        : id \in {x \in ids : SpecOfId(x).mtype = TYPE_NOTE},
          ts \in {t - lag : lag \in Lags} \cup {NoTimestamp},
          v \in {0, 0 - 1}}
    \cup {[type |-> kind, channel |-> SpecOfId(id).channel, note |-> SpecOfId(id).number,
           cc |-> SpecOfId(id).number, nrpn |-> SpecOfId(id).number,
           value |-> SpecOfId(id).value, velocity |-> SpecOfId(id).value,
           timestamp |-> NoTimestamp, cause |-> 0]
            : kind \in {"aftertouch", "poly_at", "sysex"}, id \in ids}

\* C32: a note event with velocity <= 0 and an event of a kind outside the
\* six message types change nothing: alone, or before or after the events of
\* a tick, they leave the result of FuzzAnalyzer.process_events (pending map,
\* counters, series) and of the monitor's _process_events (the outstanding
\* chord) as it is without them.
C32_ForeignEventsIgnored ==
    /\ driver = "fuzz" =>
          \A t \in Clock :
             \A e \in ForeignEvents({audit.ledger[u].id : u \in 1..Len(audit.ledger)}, t) :
                /\ process_events(FuzzState, <<e>>, t) = FuzzState
                /\ \A events \in EventLists(FuzzInbound(t)) :
                      /\ process_events(FuzzState, <<e>> \o events, t)
                            = process_events(FuzzState, events, t)
                      /\ process_events(FuzzState, events \o <<e>>, t)
                            = process_events(FuzzState, events, t)
    /\ driver = "endurance" =>
          \A t \in Clock :
             \A e \in ForeignEvents(DOMAIN endurance.active_probe.expected, t) :
                /\ Endurance_process_events(EnduranceState, <<e>>, t) = EnduranceState
                /\ \A events \in EventLists(EnduranceInbound(t)) :
                      /\ Endurance_process_events(EnduranceState, <<e>> \o events, t)
                            = Endurance_process_events(EnduranceState, events, t)
                      /\ Endurance_process_events(EnduranceState, events \o <<e>>, t)
                            = Endurance_process_events(EnduranceState, events, t)

\* a note is pending in the fuzz analyzer and a tick can follow, so that a
\* note event with velocity 0 for the same channel and note can arrive
C32_Witness ==
    /\ driver = "fuzz"
    /\ Clock # {}
    /\ \E id \in DOMAIN analyzer.pending :
          /\ SpecOfId(id).mtype = TYPE_NOTE
          /\ id \in {audit.ledger[u].id : u \in 1..Len(audit.ledger)}

(***************************************************************************)
(* The latencies process_events records                                    *)
(***************************************************************************)
\* the echo of a pending send with every timestamp worth telling apart: none,
\* before the send, at the send, before the tick and at the tick
PendingEchoes(id, t) ==
    {EchoEvent(SpecOfId(id), ts, analyzer.pending[id].uid)
        : ts \in {NoTimestamp, analyzer.pending[id].send_time - Quantum,
                  analyzer.pending[id].send_time, t - Quantum \div 2, t}}

\* C33: the latency process_events records for a matched event is the
\* event's own timestamp (the tick's now only when the event carries none)
\* minus the send time, in ms, and 0 when that is negative; every latency on
\* record and the minimum get_stats reports are >= 0.
C33_LatencyFloored ==
    driver = "fuzz" =>
        /\ \A i \in 1..Len(analyzer.results_y) : analyzer.results_y[i] >= 0
        /\ analyzer.stats.count > 0 =>
              /\ get_stats(analyzer).min >= 0
              /\ get_stats(analyzer).last >= 0
        /\ \A t \in Clock, id \in DOMAIN analyzer.pending :
              \A e \in PendingEchoes(id, t) :
                 LET r == process_events(FuzzState, <<e>>, t)
                     send_time == analyzer.pending[id].send_time
                     raw == IF e.timestamp = NoTimestamp THEN t - send_time
                            ELSE e.timestamp - send_time
                     latency == IF raw < 0 THEN 0 ELSE raw
                 IN  /\ r.an.last_latency_ms = latency
                     /\ r.an.results_y[Len(r.an.results_y)] = latency
                     /\ r.an.stats.count = analyzer.stats.count + 1
                     /\ r.an.stats.min_val >= 0
                     /\ r.an.stats.min_val <= latency
                     /\ get_stats(r.an).min = r.an.stats.min_val

\* a latency of half a tick period is on record: the event's timestamp was
\* used, not the time of the tick; and another send is pending
C33_Witness ==
    /\ driver = "fuzz"
    /\ Clock # {}
    /\ analyzer.pending # EmptyMap
    /\ \E i \in 1..Len(analyzer.results_y) : analyzer.results_y[i] = Quantum - 500

(***************************************************************************)
(* A send held back by a collision goes out once the identity is free      *)
(***************************************************************************)
\* the generator has a single identity to send, a send is due and was held
\* back because that identity is pending
HeldBack ==
    /\ driver = "fuzz"
    /\ generator.enabled
    /\ generator.mode = "single"
    /\ ~generator.vary_number /\ ~generator.vary_value /\ ~generator.randomize_channel
    /\ generator.next_send_time # None
    /\ generator.next_send_time <= now
    /\ analyzer.pending # EmptyMap

\* C34: with a single fixed identity, once a send was held back because the
\* identity was pending, the tick that matches the pending entry or finds
\* its deadline passed sends again: the generator is behind by no more than
\* the time the entry takes to be resolved.
C34_SendsOnceFree ==
    HeldBack =>
        \A t \in Clock, selected_channel \in SelectedChannels :
            \A events \in EventLists(FuzzInbound(t)) :
                LET matched == \E i \in 1..Len(events) :
                                  /\ event_to_spec(events[i]) # NoSpec
                                  /\ identity(event_to_spec(events[i])) \in DOMAIN analyzer.pending
                    timed_out == \A id \in DOMAIN analyzer.pending :
                                    analyzer.pending[id].send_time + analyzer.timeout_s <= t
                    outcomes == FuzzTest_tick(FuzzState, events, selected_channel, t)
                IN  (matched \/ timed_out) /\ Len(audit.ledger) < MaxSends =>
                        \A s \in outcomes :
                           /\ s.gen.sent_count > generator.sent_count
                           /\ s.an.pending # EmptyMap

\* a send was held back, nothing has answered the pending one, and the next
\* tick is at its deadline
C34_Witness ==
    /\ HeldBack
    /\ Len(audit.ledger) < MaxSends
    /\ analyzer.received_count = 0
    /\ \E t \in Clock, selected_channel \in SelectedChannels :
          /\ \A id \in DOMAIN analyzer.pending :
                analyzer.pending[id].send_time + analyzer.timeout_s = t
          /\ FuzzTest_tick(FuzzState, <<>>, selected_channel, t) # {}

(***************************************************************************)
(* The counters get_stats reports                                          *)
(***************************************************************************)
\* C35: while the fuzz test is enabled the counters of get_stats satisfy
\* sent = received + missing + pending; in every reachable state, enabled or
\* not, received + missing is at most sent.
C35_CountersBalance ==
    driver = "fuzz" =>
        LET st == get_stats(analyzer)
        IN  /\ st.received + st.missing <= st.sent
            /\ generator.enabled => st.sent = st.received + st.missing + st.pending
            /\ st.pending = Cardinality(DOMAIN analyzer.pending)

\* the fuzz test is enabled, one send was answered or missed and another is
\* pending
C35_Witness ==
    /\ driver = "fuzz"
    /\ generator.enabled
    /\ get_stats(analyzer).sent = 2
    /\ get_stats(analyzer).pending = 1
    /\ get_stats(analyzer).missing = 1

(***************************************************************************)
(* The prober's counters after clear_results                               *)
(***************************************************************************)
\* C36: in every reachable state of the prober missed_probes plus the number
\* of chords completed since the counters were last reset is at most
\* probes_sent.  The result series is cleared wherever the counters are
\* reset and grows by one point per completed chord (up to max_points), so
\* its length is a lower bound of the chords completed since the reset.
C36_ResolvedAtMostSent ==
    driver = "endurance" =>
        endurance.missed_probes + Len(endurance.results_x) <= endurance.probes_sent

(***************************************************************************)
(* Every pending send has its deadline queued                              *)
(***************************************************************************)
\* every pending entry of the analyzer has its own deadline in the queue
OwnDeadlineQueued(an) ==
    /\ \A id \in DOMAIN an.pending :
          \E i \in 1..Len(an.deadlines) :
             an.deadlines[i] = <<an.pending[id].send_time + an.timeout_s, id>>
    /\ Len(an.deadlines) >= Cardinality(DOMAIN an.pending)

\* C37: each pending entry has an entry in the deadline queue for its
\* identity with deadline exactly its send time + timeout, so the queue never
\* holds fewer entries than the pending map; and check_timeouts at any time
\* leaves no pending entry whose deadline has passed, and every entry it
\* leaves still has its deadline queued.
C37_DeadlineForEveryPending ==
    driver = "fuzz" =>
        /\ OwnDeadlineQueued(analyzer)
        /\ \A k \in 0..(MaxTime + 2) :
              LET t == now + k * Quantum
                  r == check_timeouts(FuzzState, t)
              IN  /\ OwnDeadlineQueued(r.an)
                  /\ \A id \in DOMAIN r.an.pending :
                        r.an.pending[id].send_time + r.an.timeout_s > t
                  /\ k >= 2 => r.an.pending = EmptyMap

\* a send is pending whose identity was sent and answered before: the queue
\* holds the deadline of the earlier send as well
C37_Witness ==
    /\ driver = "fuzz"
    /\ analyzer.pending # EmptyMap
    /\ Len(analyzer.deadlines) > Cardinality(DOMAIN analyzer.pending)
    /\ \E i, j \in 1..Len(analyzer.deadlines) :
          /\ i # j
          /\ analyzer.deadlines[i][2] = analyzer.deadlines[j][2]
          /\ analyzer.deadlines[i][2] \in DOMAIN analyzer.pending

(***************************************************************************)
(* The order of the steps of FuzzTest.tick                                 *)
(***************************************************************************)
\* what a tick at time t can be handed: the echoes of what was sent so far
\* and, were the device to answer at once, of what this tick may generate
TickEvents(t, selected_channel) ==
    FuzzInbound(t)
    \cup {EchoEvent(spec, t, Len(audit.ledger) + 1)
            : spec \in generate_spec(generator, selected_channel)}

\* C38: FuzzTest.tick matches the inbound events before it checks the
\* timeouts and before the generator runs: a send whose deadline has passed
\* and whose response arrives in the same tick is counted as received and
\* not as missed, and a message generated in a tick is still pending at the
\* end of that tick, whatever the events of the tick were.
C38_EventsBeforeTimeouts ==
    (driver = "fuzz" /\ generator.enabled) =>
        \A t \in Clock, selected_channel \in SelectedChannels :
            \A events \in EventLists(TickEvents(t, selected_channel)) :
                \A s \in FuzzTest_tick(FuzzState, events, selected_channel, t) :
                    /\ \A id \in DOMAIN analyzer.pending :
                          (\E i \in 1..Len(events) :
                              /\ event_to_spec(events[i]) # NoSpec
                              /\ identity(event_to_spec(events[i])) = id)
                            => /\ s.au.ledger[analyzer.pending[id].uid].res = "matched"
                               /\ s.an.received_count > analyzer.received_count
                               /\ s.an.missed_count = analyzer.missed_count
                    /\ \A u \in (Len(audit.ledger) + 1)..Len(s.au.ledger) :
                          /\ s.au.ledger[u].res = "pending"
                          /\ s.au.ledger[u].id \in DOMAIN s.an.pending
                          /\ s.an.pending[s.au.ledger[u].id].uid = u
                          /\ s.an.pending[s.au.ledger[u].id].send_time = t

\* a send is pending, nothing was received or missed yet, and the next tick
\* is at its deadline: the response can arrive in that tick
C38_Witness ==
    /\ driver = "fuzz"
    /\ generator.enabled
    /\ Len(audit.ledger) < MaxSends
    /\ analyzer.received_count = 0
    /\ analyzer.missed_count = 0
    /\ \E t \in Clock, id \in DOMAIN analyzer.pending :
          /\ analyzer.pending[id].send_time + analyzer.timeout_s <= t
          /\ \E e \in FuzzInbound(t) : identity(event_to_spec(e)) = id

(***************************************************************************)
(* set_enabled with the value the component already has                    *)
(***************************************************************************)
\* C39: set_enabled(True) while the component runs and set_enabled(False)
\* while it is stopped change nothing (counters, series, pending entries,
\* the outstanding chord), and a tick while the component is disabled,
\* whatever it receives, sends nothing and changes nothing; for the fuzz
\* test and for the endurance prober.
C39_SetEnabledIdempotent ==
    /\ driver = "fuzz" =>
          \A t \in {now} \cup Clock :
             /\ FuzzTest_set_enabled(FuzzState, generator.enabled, t) = FuzzState
             /\ FuzzTest_set_enabled(FuzzTest_set_enabled(FuzzState, ~generator.enabled, t),
                                     ~generator.enabled, t)
                   = FuzzTest_set_enabled(FuzzState, ~generator.enabled, t)
             /\ ~generator.enabled =>
                   \A events \in EventLists(FuzzInbound(t)), c \in SelectedChannels :
                      FuzzTest_tick(FuzzState, events, c, t) = {FuzzState}
    /\ driver = "endurance" =>
          \A t \in {now} \cup Clock :
             /\ Endurance_set_enabled(EnduranceState, endurance.enabled, t) = EnduranceState
             /\ Endurance_set_enabled(
                    Endurance_set_enabled(EnduranceState, ~endurance.enabled, t),
                    ~endurance.enabled, t)
                   = Endurance_set_enabled(EnduranceState, ~endurance.enabled, t)
             /\ ~endurance.enabled =>
                   \A events \in EventLists(EnduranceInbound(t)), c \in SelectedChannels :
                      /\ Endurance_tick(EnduranceState, events, c, t) = {EnduranceState}
                      /\ Endurance_tick_returns(EnduranceState, events, c, t) = {NoResult}

\* the fuzz test runs with a send pending, a response on record and a later
\* start time than the one it has: a restart would show
C39_Witness ==
    /\ driver = "fuzz"
    /\ generator.enabled
    /\ analyzer.pending # EmptyMap
    /\ analyzer.received_count > 0
    /\ analyzer.results_y # <<>>
    /\ analyzer.start_time < now

(***************************************************************************)
(* The processor's feedback: set_feedback_mode, set_delay,                 *)
(* process_incoming_events and process_scheduled_events in any order, each *)
(* call at the time of the one before or one tick period later.  At most   *)
(* MaxSends events arrive in a run.                                        *)
(***************************************************************************)
ProcessorState == [proc |-> processor, out |-> midi, au |-> audit]

ProcessorInit ==
    /\ now = Quantum
    /\ driver = "processor"
    /\ analyzer = FuzzAnalyzer_init
    /\ generator = FuzzGenerator_init
    /\ timing = TimingModel_init
    /\ endurance = Endurance_init
    /\ midi = Midi_init
    /\ processor = MidiProcessor_init
    /\ audit = Audit_init

\* feedback_mode_cb hands over the radio button's label in upper case;
\* delay_time_cb the slider's value: a negative one, none, one and two ticks
ProcessorNext ==
    \/ \E mode \in {"NONE", "IMMEDIATE", "DELAYED"} :
          /\ processor' = set_feedback_mode(processor, mode)
          /\ UNCHANGED <<now, driver, analyzer, generator, timing, endurance, midi, audit>>
    \/ \E ms \in {0 - Quantum, 0, Quantum, 2 * Quantum} :
          /\ processor' = set_delay(processor, ms)
          /\ UNCHANGED <<now, driver, analyzer, generator, timing, endurance, midi, audit>>
    \/ \E t \in {now} \cup Clock, events \in EventLists({TYPE_CC}) :
          /\ Len(audit.ledger) + Len(events) <= MaxSends
          /\ now' = t
          /\ LET s == process_incoming_events(ProcessorState, events, t)
             IN  processor' = s.proc /\ midi' = s.out /\ audit' = s.au
          /\ UNCHANGED <<driver, analyzer, generator, timing, endurance>>
    \/ \E t \in {now} \cup Clock :
          /\ now' = t
          /\ LET s == process_scheduled_events(ProcessorState, t)
             IN  processor' = s.proc /\ midi' = s.out /\ audit' = s.au
          /\ UNCHANGED <<driver, analyzer, generator, timing, endurance>>

ProcessorSpec == ProcessorInit /\ [][ProcessorNext]_vars

(***************************************************************************)
(* Delayed feedback                                                        *)
(***************************************************************************)
\* the events process_scheduled_events has sent back, as places in the ledger
SentBack == {e \in 1..Len(audit.ledger) : audit.ledger[e].sent_at # None}

\* what holds whatever set_delay did: the buffer and the ledger agree, every
\* transmission on the wire is the one transmission of one event, an event
\* goes out at its release time or later, and events go out in arrival order
KeptInOrder ==
    LET buf == processor.scheduled_events
        led == audit.ledger
    IN  /\ \A i \in 1..Len(buf) :
              /\ buf[i][2] \in 1..Len(led)
              /\ led[buf[i][2]].release = buf[i][1]
              /\ led[buf[i][2]].sent_at = None
              /\ buf[i][1] >= led[buf[i][2]].arrival
        /\ \A i, j \in 1..Len(buf) : i < j => buf[i][2] < buf[j][2]
        /\ midi.sent = Cardinality(SentBack)
        /\ \A e \in SentBack :
              /\ led[e].rank \in 1..midi.sent
              /\ led[e].sent_at >= (IF led[e].release = None THEN led[e].arrival
                                    ELSE led[e].release)
        /\ \A e, f \in SentBack : e < f => led[e].rank < led[f].rank

====
